---- MODULE Spec2Model ----
(***************************************************************************)
(* repo-tui: the presentation shell (RepoOverviewApp), the list widget     *)
(* (RepoListWidget: flattening, priority order, expand/collapse, cursor)   *)
(* and the grid widget (RepoGridWidget), over summaries produced by the    *)
(* aggregation functions fetch_all_repos / fetch_single_repo.              *)
(*                                                                         *)
(* Conventions.  Indices are Python's (0-based); Nth(s, i) reads a list.   *)
(* None is the cursor value "nothing highlighted" and NoStatus the absent  *)
(* sonar_status.  An option id "repo:<n>", "pr:<n>:<k>", "issue:<n>:<k>",  *)
(* "empty:<n>" is the triple <<kind, n, k>> (k = 0 where the string has no *)
(* number); repository names contain no ':'.  An exception that leaves a   *)
(* handler ends the application: raised # NoError is a terminal state.     *)
(***************************************************************************)
EXTENDS Integers, Sequences, FiniteSets, TLC

VARIABLES
    repos,        \* RepoOverviewApp.repos (the list widget aliases the same list)
    check_sonar,  \* RepoOverviewApp.check_sonar
    view_mode,    \* RepoOverviewApp.view_mode
    expanded,     \* RepoListWidget.expanded
    options,      \* RepoListWidget: the OptionList's options, in order
    highlighted,  \* RepoListWidget.highlighted (OptionList cursor), None or an index
    cards,        \* RepoGridWidget._cards (each card holds its repo)
    focused,      \* index in cards of the focused RepoCard, or None
    keys,         \* sort keys computed by the last sorted(...) call, in input order
    raised,       \* exception that escaped the last handler, or NoError
    last,         \* the handler that ran last
    call,         \* arguments and results of the last function run on its own
    flight        \* the app's message loop: queued keys, running handler, runs in flight

vars == <<repos, check_sonar, view_mode, expanded, options, highlighted,
          cards, focused, keys, raised, last, call, flight>>

\* what the shell's handlers and the widgets' methods leave alone
apart == <<call, flight>>

-----------------------------------------------------------------------------
(* Bounds of the model *)

MaxIssues == 2
MaxPRs == 1
MaxCount == 12
ShellMaxIssues == 1
PipeMaxIssues == 1
MaxQueue == 3
MaxRepos == 21
MaxContexts == 2
MaxLines == 2
MaxItems == 6

RepoNames == {"a", "b"}

-----------------------------------------------------------------------------
(* Values *)

None == -1
NoStatus == "None"
NoError == "none"

SonarStatuses == {"OK", "ERROR", "WARN", "NONE"}

\* now - created_at, in days, as _build_pr_option reads the clock
Ages == {0, 7, 30, 90}

Nth(s, i) == s[i + 1]

Range(s) == {s[i] : i \in 1..Len(s)}

\* a PullRequest that also declares author_name
PullRequestFieldsFixed == {"number", "title", "url", "author", "author_name", "state",
    "draft", "labels", "body", "reviewers", "review_decision", "head_ref", "base_ref",
    "created_at", "updated_at", "mergeable", "checks_status"}

\* models.py: the fields of the PullRequest dataclass
PullRequestFields == {"number", "title", "url", "author", "state", "draft", "labels",
    "body", "reviewers", "review_decision", "head_ref", "base_ref", "created_at",
    "updated_at", "mergeable", "checks_status"}

\* a PullRequest as get_repo_prs builds it (createdAt present)
PullRequest(n) == [number |-> n, created_at |-> TRUE]

\* a RepoOverview; issues is the list of issue numbers
RepoOverview(name, count, issues, prs, status, checked, local, dirty) ==
    [name |-> name, open_issues_count |-> count, issues |-> issues,
     pull_requests |-> prs, sonar_status |-> status, sonar_checked |-> checked,
     local_path |-> local, has_uncommitted_changes |-> dirty]

-----------------------------------------------------------------------------
(* RepoListWidget: priority, sort and flattening *)

\* a priority that weighs WARN like "no status"
get_priority_no_warn(repo) ==
    (IF repo.sonar_status = "ERROR" THEN 1000 ELSE 0) + repo.open_issues_count

\* a priority whose ERROR weight an issue count can reach
get_priority_small_error(repo) ==
    (IF repo.sonar_status # NoStatus
        THEN IF repo.sonar_status = "ERROR" THEN 100
             ELSE IF repo.sonar_status = "WARN" THEN 10 ELSE 0
        ELSE 0)
    + repo.open_issues_count

_get_priority(repo) ==
    (IF repo.sonar_status # NoStatus
        THEN IF repo.sonar_status = "ERROR" THEN 1000
             ELSE IF repo.sonar_status = "WARN" THEN 100 ELSE 0
        ELSE 0)
    + repo.open_issues_count

RECURSIVE SortedIndices(_, _)
\* the indices 1..n of ks in descending key order; with stable = TRUE equal keys
\* keep their input order, with stable = FALSE they come out reversed
SortedIndices(ks, stable) ==
    IF ks = <<>> THEN <<>>
    ELSE LET n == Len(ks)
             before == SortedIndices(SubSeq(ks, 1, n - 1), stable)
             p == Cardinality({j \in 1..(n - 1) :
                      IF stable THEN ks[j] >= ks[n] ELSE ks[j] > ks[n]})
         IN  SubSeq(before, 1, p) \o <<n>> \o SubSeq(before, p + 1, n - 1)

\* sorted(items, key, reverse=True) computed as reversed(sorted(items, key))
sorted_then_reversed(items, ks) ==
    LET perm == SortedIndices(ks, FALSE)
    IN  [i \in 1..Len(items) |-> items[perm[i]]]

\* Python's sorted(items, key=..., reverse=True); ks[i] is the key of items[i]
sorted(items, ks) ==
    LET perm == SortedIndices(ks, TRUE)
    IN  [i \in 1..Len(items) |-> items[perm[i]]]

_build_repo_option(repo, exp) ==
    LET status == repo.sonar_status
        count == repo.open_issues_count
        icon == IF status = "ERROR" THEN "red"
                ELSE IF status = "WARN" THEN "yellow"
                ELSE IF count >= 10 THEN "red"
                ELSE IF count >= 5 THEN "yellow"
                ELSE IF count > 0 THEN "blue"
                ELSE "green"
        local == IF repo.local_path
                    THEN IF repo.has_uncommitted_changes THEN "uncommitted" ELSE "branch"
                    ELSE "remote"
        sonar_info == IF status # NoStatus
                         THEN IF status \in {"ERROR", "WARN", "OK"} THEN status ELSE ""
                         ELSE IF repo.sonar_checked THEN "No Sonar" ELSE ""
    IN  [id |-> <<"repo", repo.name, 0>>, disabled |-> FALSE,
         prompt |-> [icon |-> icon, expand_icon |-> repo.name \in exp,
                     name |-> repo.name, pr_count |-> Len(repo.pull_requests),
                     issue_count |-> count, local |-> local, sonar_info |-> sonar_info]]

\* an issue row identified by its number alone
build_issue_option_number_only(repo, number) ==
    [id |-> <<"issue", "", number>>, disabled |-> FALSE, prompt |-> [number |-> number]]

_build_issue_option(repo, number) ==
    [id |-> <<"issue", repo.name, number>>, disabled |-> FALSE,
     prompt |-> [number |-> number]]

\* the PR row once the attribute read succeeds
build_pr_option_with_author_name(repo, pr, age) ==
    LET date_color == IF age < 7 THEN "green"
                      ELSE IF age < 30 THEN "dim"
                      ELSE IF age < 90 THEN "yellow" ELSE "red"
    IN  [error |-> NoError,
         option |-> [id |-> <<"pr", repo.name, pr.number>>, disabled |-> FALSE,
                     prompt |-> [number |-> pr.number,
                                 date_color |-> IF pr.created_at THEN date_color ELSE ""]]]

\* the date colour is computed first (lines 152-175), then line 178 reads
\* pr.author_name, an attribute the dataclass may not have
_build_pr_option(repo, pr, age) ==
    IF "author_name" \in PullRequestFields
        THEN build_pr_option_with_author_name(repo, pr, age)
        ELSE [error |-> "AttributeError",
              option |-> [id |-> <<"pr", repo.name, pr.number>>, disabled |-> FALSE,
                          prompt |-> [number |-> pr.number, date_color |-> ""]]]

_build_empty_option(repo) ==
    [id |-> <<"empty", repo.name, 0>>, disabled |-> TRUE, prompt |-> [name |-> repo.name]]

\* the options one repository adds (lines 50-67) and the exception that stops it
RepoRows(repo, exp, age) ==
    LET header == <<_build_repo_option(repo, exp)>>
        prs == repo.pull_requests
        built == [i \in 1..Len(prs) |-> _build_pr_option(repo, prs[i], age)]
        bad == {i \in 1..Len(prs) : built[i].error # NoError}
        stop == IF bad = {} THEN 0 ELSE CHOOSE i \in bad : \A j \in bad : i <= j
        pr_rows == [i \in 1..(IF stop = 0 THEN Len(prs) ELSE stop - 1) |-> built[i].option]
        issue_rows == [i \in 1..Len(repo.issues) |-> _build_issue_option(repo, repo.issues[i])]
        empty_rows == IF prs = <<>> /\ repo.issues = <<>>
                         THEN <<_build_empty_option(repo)>> ELSE <<>>
    IN  IF repo.name \notin exp THEN [rows |-> header, error |-> NoError]
        ELSE IF stop # 0 THEN [rows |-> header \o pr_rows, error |-> built[stop].error]
        ELSE [rows |-> header \o pr_rows \o issue_rows \o empty_rows, error |-> NoError]

RECURSIVE AddOptions(_, _, _)
\* the for loop of _rebuild_options over the sorted repositories
AddOptions(sorted_repos, exp, age) ==
    IF sorted_repos = <<>> THEN [options |-> <<>>, error |-> NoError]
    ELSE LET first == RepoRows(Head(sorted_repos), exp, age)
             rest == AddOptions(Tail(sorted_repos), exp, age)
         IN  IF first.error # NoError
                THEN [options |-> first.rows, error |-> first.error]
                ELSE [options |-> first.rows \o rest.options, error |-> rest.error]

\* clear_options(), sorted(...), then the loop; age is the clock reading of this call
_rebuild_options(rs, exp, age) ==
    LET ks == [i \in 1..Len(rs) |-> _get_priority(rs[i])]
        added == AddOptions(sorted(rs, ks), exp, age)
    IN  [options |-> added.options, error |-> added.error, keys |-> ks]

\* first index whose option id is option_id, or None
IndexOf(opts, option_id) ==
    LET hits == {i \in 0..(Len(opts) - 1) : Nth(opts, i).id = option_id}
    IN  IF hits = {} THEN None ELSE CHOOSE i \in hits : \A j \in hits : i <= j

\* a lookup that falls back to index 0 when nothing matches
select_by_id_or_first(opts, cur, option_id) ==
    IF IndexOf(opts, option_id) # None THEN IndexOf(opts, option_id) ELSE 0

\* the cursor after _select_by_id: the first match, else unchanged
_select_by_id(opts, cur, option_id) ==
    IF IndexOf(opts, option_id) # None THEN IndexOf(opts, option_id) ELSE cur

\* get_selected_repo of the list widget: the summary, or <<>> for None
get_selected_repo(rs, opts, cur) ==
    IF cur = None THEN <<>>
    ELSE LET id == Nth(opts, cur).id
             named == {i \in 1..Len(rs) : rs[i].name = id[2]}
         IN  IF id[1] \in {"repo", "issue", "pr"} /\ named # {}
                THEN <<rs[CHOOSE i \in named : \A j \in named : i <= j]>>
                ELSE <<>>

-----------------------------------------------------------------------------
(* RepoGridWidget *)

RepoGridWidget_get_priority(repo) ==
    (IF repo.sonar_status = "ERROR" THEN 1000 ELSE 0)
    + (IF repo.has_uncommitted_changes THEN 500 ELSE 0)
    + repo.open_issues_count * 10
    + Len(repo.pull_requests) * 10
    + (IF repo.local_path THEN 100 ELSE 0)

\* RepoGridWidget.set_repos: the cards in sorted order and the sort keys
RepoGridWidget_set_repos(rs) ==
    LET ks == [i \in 1..Len(rs) |-> RepoGridWidget_get_priority(rs[i])]
    IN  [cards |-> sorted(rs, ks), keys |-> ks]

-----------------------------------------------------------------------------
(* What the sources can return *)

\* issue numbers of a repository with k open issues, newest first
IssueList(k) == [i \in 1..k |-> k + 1 - i]

PRList(k) == [i \in 1..k |-> PullRequest(k + 1 - i)]

\* (local_path present, has_uncommitted_changes): remote, clean clone, dirty clone
LocalStates == {<<FALSE, FALSE>>, <<TRUE, FALSE>>, <<TRUE, TRUE>>}

\* the shell runs where no repository is cloned locally
ShellLocalStates == {<<FALSE, FALSE>>}

\* what SonarCloudClient resolves for a repository in the shell's runs
SonarResults == {NoStatus, "ERROR"}

\* the clock readings of the shell's runs
ShellAges == {0}

\* per repository: open issues, open PRs (none or one), local state
FetchData == (0..ShellMaxIssues) \X {0, 1} \X ShellLocalStates

\* gh repo list after the inclusion filter: the repositories in listing order,
\* any of them possibly missing
Listings == {<<>>, <<"a">>, <<"b">>, <<"a", "b">>}

\* a summary whose count is the listing's openIssuesCount (data.py 58: always 0)
fetch_repo_data_listing_count(name, d) ==
    RepoOverview(name, 0, IssueList(d[1]), PRList(d[2]), NoStatus, FALSE, d[3][1], d[3][2])

\* fetch_all_repos.fetch_repo_data: sonar is never queried in a full pass
fetch_repo_data(name, d) ==
    LET issues == IssueList(d[1])
    IN  RepoOverview(name, Len(issues), issues, PRList(d[2]), NoStatus, FALSE,
                     d[3][1], d[3][2])

\* the lists fetch_all_repos can return
fetch_all_repos ==
    UNION {{[i \in 1..Len(l) |-> fetch_repo_data(l[i], ds[i])] :
                ds \in [1..Len(l) -> FetchData]} : l \in Listings}

\* fetch_single_repo for the repository of prior; sonar is what the key loop resolves
fetch_single_repo(prior, check, d, sonar) ==
    LET issues == IssueList(d[1])
    IN  RepoOverview(prior.name, Len(issues), issues, PRList(d[2]),
                     IF check THEN sonar ELSE NoStatus, check, d[3][1], d[3][2])

-----------------------------------------------------------------------------
(* RepoOverviewApp *)

\* _do_refresh without the restore loop (lines 691-693)
restore_nothing(old, fetched) == fetched

\* a restore loop that puts back the status and leaves sonar_checked as fetched
restore_sonar_status_only(old, fetched) ==
    LET saved(name) == {i \in 1..Len(old) : old[i].name = name /\ old[i].sonar_checked}
        at(name) == old[CHOOSE i \in saved(name) : \A j \in saved(name) : i >= j]
    IN  [i \in 1..Len(fetched) |->
            IF saved(fetched[i].name) # {}
                THEN [fetched[i] EXCEPT !.sonar_status = at(fetched[i].name).sonar_status]
                ELSE fetched[i]]

\* _do_refresh lines 683-693: old_sonar_status saved by name, restored by name
restore_sonar(old, fetched) ==
    LET saved(name) == {i \in 1..Len(old) : old[i].name = name /\ old[i].sonar_checked}
        at(name) == old[CHOOSE i \in saved(name) : \A j \in saved(name) : i >= j]
    IN  [i \in 1..Len(fetched) |->
            IF saved(fetched[i].name) # {}
                THEN [fetched[i] EXCEPT
                        !.sonar_status = at(fetched[i].name).sonar_status,
                        !.sonar_checked = at(fetched[i].name).sonar_checked]
                ELSE fetched[i]]

\* RepoListWidget.set_repos; clear_options() leaves nothing highlighted
RepoListWidget_set_repos(rs, exp, cur, age) ==
    LET built == _rebuild_options(rs, exp, age)
    IN  [options |-> built.options, keys |-> built.keys, error |-> built.error,
         highlighted |-> IF built.error # NoError THEN None
                         ELSE IF rs # <<>> THEN 0 ELSE None]

\* a replacement that drops the old summary and appends the new one
replace_repo_append(rs, updated) ==
    SelectSeq(rs, LAMBDA r : r.name # updated.name) \o <<updated>>

\* replace the first summary of that name (lines 766-769)
replace_repo(rs, updated) ==
    LET named == {i \in 1..Len(rs) : rs[i].name = updated.name}
    IN  IF named = {} THEN rs
        ELSE [rs EXCEPT ![CHOOSE i \in named : \A j \in named : i <= j] = updated]

Running == raised = NoError /\ last # "init"

Init ==
    /\ repos = <<>>
    /\ check_sonar \in BOOLEAN
    /\ view_mode = "list"
    /\ expanded = {}
    /\ options = <<>>
    /\ highlighted = None
    /\ cards = <<>>
    /\ focused = None
    /\ keys = <<>>
    /\ raised = NoError
    /\ last = "init"
    /\ call = <<>>
    /\ flight = <<>>

\* _do_refresh: fetch, restore sonar, then set_repos on the widget "#repo-list"
_do_refresh(op) ==
    \E fetched \in fetch_all_repos, age \in ShellAges :
    \E new \in {restore_sonar(repos, fetched)} :
    \E shown \in {RepoListWidget_set_repos(new, expanded, highlighted, age)} :
        /\ repos' = new
        /\ last' = op
        /\ IF view_mode = "list"
              THEN /\ options' = shown.options
                   /\ highlighted' = shown.highlighted
                   /\ keys' = shown.keys
                   /\ raised' = shown.error
              ELSE /\ raised' = "NoMatches"
                   /\ UNCHANGED <<options, highlighted, keys>>
        /\ UNCHANGED <<check_sonar, view_mode, expanded, cards, focused, apart>>

InitialLoad ==
    /\ raised = NoError /\ last = "init"
    /\ _do_refresh("initial_load")

RefreshAll ==
    /\ Running
    /\ _do_refresh("refresh_all")

\* the current widget's get_selected_repo: <<summary>>, or <<>> for None
selected_repo ==
    IF view_mode = "list" THEN get_selected_repo(repos, options, highlighted)
    ELSE IF focused = None THEN <<>> ELSE <<Nth(cards, focused)>>

\* set_repos on the current widget, then _select_by_id(reselect) in list view
\* (reselect = <<>>: no re-selection)
show(op, new, reselect, age) ==
    /\ repos' = new
    /\ last' = op
    /\ IF view_mode = "list"
          THEN \E shown \in {RepoListWidget_set_repos(new, expanded, highlighted, age)} :
                /\ options' = shown.options
                /\ keys' = shown.keys
                /\ raised' = shown.error
                /\ highlighted' =
                       IF shown.error # NoError \/ reselect = <<>> THEN shown.highlighted
                       ELSE _select_by_id(shown.options, shown.highlighted, reselect)
                /\ UNCHANGED <<cards, focused>>
          ELSE \E grid \in {RepoGridWidget_set_repos(new)} :
                /\ cards' = grid.cards
                /\ keys' = grid.keys
                /\ focused' = IF grid.cards # <<>> THEN 0 ELSE None
                /\ UNCHANGED <<options, highlighted, raised>>
    /\ UNCHANGED <<check_sonar, view_mode, expanded, apart>>

no_repo_selected(op) ==
    /\ last' = op
    /\ UNCHANGED <<repos, check_sonar, view_mode, expanded, options, highlighted,
                   cards, focused, keys, raised, apart>>

\* lines 745-775 / 802-830: fetch the selected repository, replace it, show, re-select
single_repo(op, check) ==
    \E selected \in {selected_repo} :
        IF selected = <<>> THEN no_repo_selected(op)
        ELSE \E d \in FetchData, age \in ShellAges,
                sonar \in (IF check THEN SonarResults ELSE {NoStatus}) :
             \E updated \in {fetch_single_repo(selected[1], check, d, sonar)} :
                show(op, replace_repo(repos, updated), <<"repo", updated.name, 0>>, age)

\* action_refresh_repo
RefreshRepo ==
    /\ Running
    /\ single_repo("refresh_repo", check_sonar)

\* action_sonar_repo
SonarRepo ==
    /\ Running
    /\ single_repo("sonar_repo", TRUE)

\* action_sonar_all: every summary gets the resolved status and sonar_checked
SonarAll ==
    /\ Running
    /\ \E found \in [1..Len(repos) -> SonarResults], age \in ShellAges :
        show("sonar_all",
             [i \in 1..Len(repos) |->
                 [repos[i] EXCEPT !.sonar_status = found[i], !.sonar_checked = TRUE]],
             <<>>, age)

\* the list widget's state
widget ==
    [repos |-> repos, expanded |-> expanded, options |-> options,
     highlighted |-> highlighted, keys |-> keys, raised |-> raised]

\* a toggle that takes the repository of whatever row is highlighted
toggle_expand_any_row(w, age) ==
    IF w.highlighted = None THEN w
    ELSE LET repo_name == Nth(w.options, w.highlighted).id[2]
             exp == IF repo_name \in w.expanded THEN w.expanded \ {repo_name}
                    ELSE w.expanded \cup {repo_name}
             built == _rebuild_options(w.repos, exp, age)
         IN  [repos |-> w.repos, expanded |-> exp, options |-> built.options,
              highlighted |-> IF built.error # NoError THEN None
                              ELSE _select_by_id(built.options, None,
                                                 <<"repo", repo_name, 0>>),
              keys |-> built.keys, raised |-> built.error]

\* RepoListWidget.toggle_expand: nothing without a highlighted header; else flip the
\* name in expanded, _rebuild_options (which clears the cursor), _select_by_id
toggle_expand(w, age) ==
    IF w.highlighted = None THEN w
    ELSE IF Nth(w.options, w.highlighted).id[1] # "repo" THEN w
    ELSE LET repo_name == Nth(w.options, w.highlighted).id[2]
             exp == IF repo_name \in w.expanded THEN w.expanded \ {repo_name}
                    ELSE w.expanded \cup {repo_name}
             built == _rebuild_options(w.repos, exp, age)
         IN  [repos |-> w.repos, expanded |-> exp, options |-> built.options,
              highlighted |-> IF built.error # NoError THEN None
                              ELSE _select_by_id(built.options, None,
                                                 <<"repo", repo_name, 0>>),
              keys |-> built.keys, raised |-> built.error]

\* action_toggle_expand -> RepoListWidget.toggle_expand (list view only)
ToggleExpand ==
    /\ Running
    /\ last' = "toggle_expand"
    /\ IF view_mode = "list"
          THEN \E age \in ShellAges :
               \E w \in {toggle_expand(widget, age)} :
                    /\ expanded' = w.expanded
                    /\ options' = w.options
                    /\ keys' = w.keys
                    /\ raised' = w.raised
                    /\ highlighted' = w.highlighted
          ELSE UNCHANGED <<expanded, options, keys, raised, highlighted>>
    /\ UNCHANGED <<repos, check_sonar, view_mode, cards, focused, apart>>

\* action_cursor_down / action_cursor_up in list view: the OptionList cursor moves
\* to another enabled option
MoveCursor ==
    /\ Running
    /\ view_mode = "list"
    /\ \E i \in 0..(Len(options) - 1) :
        /\ ~Nth(options, i).disabled
        /\ i # highlighted
        /\ highlighted' = i
    /\ last' = "cursor"
    /\ UNCHANGED <<repos, check_sonar, view_mode, expanded, options, cards, focused,
                   keys, raised, apart>>

\* RepoGridWidget.action_cursor_down/up/left/right: the index that gets the focus
grid_cursor(key, cur, n) ==
    IF key = "down" THEN (IF cur + 3 < n - 1 THEN cur + 3 ELSE n - 1)
    ELSE IF key = "up" THEN (IF cur - 3 > 0 THEN cur - 3 ELSE 0)
    ELSE IF key = "left" THEN (IF cur > 0 THEN cur - 1 ELSE cur)
    ELSE (IF cur < n - 1 THEN cur + 1 ELSE cur)

GridCursor ==
    /\ Running
    /\ view_mode = "grid"
    /\ focused # None
    /\ \E key \in {"down", "up", "left", "right"} :
        focused' = grid_cursor(key, focused, Len(cards))
    /\ last' = "cursor"
    /\ UNCHANGED <<repos, check_sonar, view_mode, expanded, options, highlighted, cards,
                   keys, raised, apart>>

\* a switch to the grid that keeps the grid's sorted order as the collection
switch_view_grid_keep_sorted ==
    /\ Running
    /\ last' = "switch_view_grid"
    /\ IF view_mode # "grid"
          THEN \E grid \in {RepoGridWidget_set_repos(repos)} :
                   /\ view_mode' = "grid"
                   /\ repos' = grid.cards
                   /\ cards' = grid.cards
                   /\ keys' = grid.keys
                   /\ focused' = IF grid.cards # <<>> THEN 0 ELSE None
                   /\ expanded' = {}
                   /\ options' = <<>>
                   /\ highlighted' = None
          ELSE UNCHANGED <<repos, view_mode, cards, keys, focused, expanded, options,
                           highlighted>>
    /\ UNCHANGED <<check_sonar, raised, apart>>

\* action_switch_view_grid: recompose, then set_repos on the new grid widget
SwitchViewGrid ==
    /\ Running
    /\ last' = "switch_view_grid"
    /\ IF view_mode # "grid"
          THEN \E grid \in {RepoGridWidget_set_repos(repos)} :
                   /\ view_mode' = "grid"
                   /\ cards' = grid.cards
                   /\ keys' = grid.keys
                   /\ focused' = IF grid.cards # <<>> THEN 0 ELSE None
                   /\ expanded' = {}
                   /\ options' = <<>>
                   /\ highlighted' = None
          ELSE UNCHANGED <<view_mode, cards, keys, focused, expanded, options, highlighted>>
    /\ UNCHANGED <<repos, check_sonar, raised, apart>>

\* action_switch_view_list: recompose, then set_repos on the new list widget
SwitchViewList ==
    /\ Running
    /\ last' = "switch_view_list"
    /\ IF view_mode # "list"
          THEN \E age \in ShellAges :
                \E shown \in {RepoListWidget_set_repos(repos, {}, None, age)} :
                    /\ view_mode' = "list"
                    /\ expanded' = {}
                    /\ options' = shown.options
                    /\ keys' = shown.keys
                    /\ highlighted' = shown.highlighted
                    /\ raised' = shown.error
                    /\ cards' = <<>>
                    /\ focused' = None
          ELSE UNCHANGED <<view_mode, cards, keys, focused, expanded, options,
                           highlighted, raised>>
    /\ UNCHANGED <<repos, check_sonar, apart>>

Next ==
    \/ InitialLoad
    \/ RefreshAll
    \/ RefreshRepo
    \/ SonarRepo
    \/ SonarAll
    \/ ToggleExpand
    \/ MoveCursor
    \/ GridCursor
    \/ SwitchViewGrid
    \/ SwitchViewList

Spec == Init /\ [][Next]_vars

-----------------------------------------------------------------------------
(* The widgets on their own: set_repos, rebuild, cursor and toggle_expand over *)
(* collections the pipeline can hand to them                                  *)

\* sequences of at most two summaries with distinct names, each drawn from per[name]
Collections(per) ==
    {<<>>} \cup UNION {{<<r>> : r \in per[n]} : n \in RepoNames}
    \cup UNION {{<<r, q>> : r \in per[x[1]], q \in per[x[2]]} :
                    x \in {y \in RepoNames \X RepoNames : y[1] # y[2]}}

\* list view: issues, PRs and quality status vary
ListSummaries(name) ==
    {RepoOverview(name, k, IssueList(k), PRList(p), st, st # NoStatus, FALSE, FALSE) :
        k \in 0..MaxIssues, p \in 0..MaxPRs, st \in {NoStatus, "ERROR", "WARN", "OK"}}

\* grid view: the local state varies too
GridSummaries(name) ==
    {RepoOverview(name, k, IssueList(k), PRList(p), st, st # NoStatus, loc[1], loc[2]) :
        k \in 0..MaxPRs, p \in 0..MaxPRs, st \in {NoStatus, "ERROR"}, loc \in LocalStates}

\* many open issues, every status, every other field
CountSummaries(name) ==
    {RepoOverview(name, k, IssueList(k), PRList(p), st, ch, loc[1], loc[2]) :
        k \in 0..MaxCount, p \in 0..MaxPRs, st \in {NoStatus} \cup SonarStatuses,
        ch \in BOOLEAN, loc \in LocalStates}

\* the two repositories of the priority scenario, in either order
ScenarioSummaries(name) ==
    {RepoOverview(name, k, IssueList(k), <<>>, st, st # NoStatus, FALSE, FALSE) :
        k \in {1, 12}, st \in {NoStatus, "WARN"}}

\* gh issue list --limit (data.py 73): the most issues a fetch returns
issue_limit == 100

\* the nearest an ERROR and a WARN repository can come: ERROR without an issue,
\* WARN with as many issues as the fetch returns
LimitSummaries(name) ==
    {RepoOverview(name, 0, IssueList(0), <<>>, "ERROR", TRUE, FALSE, FALSE),
     RepoOverview(name, issue_limit, IssueList(issue_limit), <<>>, "WARN", TRUE, FALSE, FALSE)}

WidgetInit ==
    /\ \/ repos \in Collections([n \in RepoNames |-> ListSummaries(n)]) /\ expanded \in SUBSET RepoNames
       \/ repos \in Collections([n \in RepoNames |-> GridSummaries(n)]) /\ expanded = {}
       \/ repos \in {<<r>> : r \in CountSummaries("a")} /\ expanded = {}
       \/ repos \in Collections([n \in RepoNames |-> ScenarioSummaries(n)]) /\ expanded = {}
       \/ repos \in Collections([n \in RepoNames |-> LimitSummaries(n)]) /\ expanded = {}
    /\ check_sonar = FALSE
    /\ view_mode = "list"
    /\ options = <<>>
    /\ highlighted = None
    /\ cards = <<>>
    /\ focused = None
    /\ keys = <<>>
    /\ raised = NoError
    /\ last = "input"
    /\ call = <<>>
    /\ flight = <<>>

\* RepoListWidget.set_repos(repos)
ListSetRepos ==
    /\ raised = NoError /\ last = "input"
    /\ \E age \in Ages :
       \E shown \in {RepoListWidget_set_repos(repos, expanded, highlighted, age)} :
        /\ options' = shown.options
        /\ keys' = shown.keys
        /\ raised' = shown.error
        /\ highlighted' = shown.highlighted
    /\ last' = "set_repos"
    /\ UNCHANGED <<repos, check_sonar, view_mode, expanded, cards, focused, apart>>

\* RepoListWidget._rebuild_options() once more, nothing mutated in between
ListRebuild ==
    /\ raised = NoError /\ last = "set_repos"
    /\ \E age \in Ages :
       \E built \in {_rebuild_options(repos, expanded, age)} :
        /\ options' = built.options
        /\ keys' = built.keys
        /\ raised' = built.error
    /\ highlighted' = None
    /\ last' = "rebuild"
    /\ UNCHANGED <<repos, check_sonar, view_mode, expanded, cards, focused, apart>>

\* RepoGridWidget.set_repos(repos)
GridSetRepos ==
    /\ raised = NoError /\ last = "input"
    /\ \E grid \in {RepoGridWidget_set_repos(repos)} :
        /\ cards' = grid.cards
        /\ keys' = grid.keys
        /\ focused' = IF grid.cards # <<>> THEN 0 ELSE None
    /\ last' = "grid_set_repos"
    /\ UNCHANGED <<repos, check_sonar, view_mode, expanded, options, highlighted, raised, apart>>

\* identities a caller may hold: headers and issue rows, in the list or not
LookupIds ==
    {<<"repo", n, 0>> : n \in RepoNames}
    \cup {<<"issue", n, k>> : n \in RepoNames, k \in 1..MaxIssues}

\* RepoListWidget._select_by_id(option_id) on a list widget that has its options
SelectById ==
    /\ raised = NoError /\ last \in {"set_repos", "cursor", "toggle_expand"}
    /\ \E option_id \in LookupIds :
        /\ highlighted' = _select_by_id(options, highlighted, option_id)
        /\ call' = [option_id |-> option_id]
    /\ last' = "select_by_id"
    /\ UNCHANGED <<repos, check_sonar, view_mode, expanded, options, cards, focused,
                   keys, raised, flight>>

\* the cursor keys and toggle_expand act on a list widget that has its options
WidgetNext ==
    \/ ListSetRepos
    \/ ListRebuild
    \/ GridSetRepos
    \/ last \in {"set_repos", "cursor", "toggle_expand"} /\ MoveCursor
    \/ last \in {"set_repos", "cursor", "toggle_expand"} /\ ToggleExpand
    \/ SelectById

SpecWidget == WidgetInit /\ [][WidgetNext]_vars

-----------------------------------------------------------------------------
(* The aggregation pipeline on its own: Config, the source clients, the     *)
(* quality-gate key loop, fetch_all_repos and fetch_single_repo.  A string  *)
(* that the code takes apart (owner, repository, organisation) is the       *)
(* sequence of its characters.                                              *)

\* dict.get(key, default)
get(data, key, default) == IF key \in DOMAIN data THEN data[key] ELSE default

\* x in list
In(x, list) == \E i \in 1..Len(list) : list[i] = x

\* a filter in which the blacklist is consulted first
should_include_repo_blacklist_first(data, repo_name) ==
    /\ ~In(repo_name, get(data, "excluded_repos", <<>>))
    /\ get(data, "included_repos", <<>>) # <<>> =>
           In(repo_name, get(data, "included_repos", <<>>))

\* Config.should_include_repo
should_include_repo(data, repo_name) ==
    LET included_repos == get(data, "included_repos", <<>>)
    IN  IF included_repos # <<>>
            THEN In(repo_name, included_repos)
            ELSE ~In(repo_name, get(data, "excluded_repos", <<>>))

\* Config.is_excluded
is_excluded(data, repo_name) == ~should_include_repo(data, repo_name)

\* str.replace('-', '_')
replace_hyphens(str) == [i \in 1..Len(str) |-> IF str[i] = "-" THEN "_" ELSE str[i]]

\* the candidate keys with repeated keys dropped
guess_project_key_dedup(owner, repo, org) ==
    LET all == <<owner \o <<"_">> \o repo, repo,
                 replace_hyphens(owner) \o <<"_">> \o replace_hyphens(repo)>>
               \o (IF org # <<>> THEN <<org \o <<"_">> \o repo, org \o <<":">> \o repo>>
                   ELSE <<>>)
        kept == SelectSeq([i \in 1..Len(all) |-> <<i, all[i]>>],
                          LAMBDA e : \A j \in 1..(e[1] - 1) : all[j] # e[2])
    IN  [i \in 1..Len(kept) |-> kept[i][2]]

\* SonarCloudClient.guess_project_key; org = <<>> is get_sonarcloud_org() returning
\* None or "" (both false in "if org")
guess_project_key(owner, repo, org) ==
    LET patterns == <<owner \o <<"_">> \o repo,
                      repo,
                      replace_hyphens(owner) \o <<"_">> \o replace_hyphens(repo)>>
    IN  IF org # <<>>
            THEN patterns \o <<org \o <<"_">> \o repo, org \o <<":">> \o repo>>
            ELSE patterns

\* a key loop that queries every key and keeps the last status that resolved
query_every_key(project_keys, answers, i) ==
    LET hits == {j \in i..Len(project_keys) : answers[j] # NoStatus}
    IN  [sonar_status |-> IF hits = {} THEN NoStatus
                          ELSE answers[CHOOSE j \in hits : \A k \in hits : k <= j],
         queried |-> project_keys]

RECURSIVE query_keys(_, _, _)
\* the key loop (data.py 415-418, app.py 857-866) from the i-th key on: answers[i] is
\* what get_project_status returns for the i-th query (NoStatus: None)
query_keys(project_keys, answers, i) ==
    IF i > Len(project_keys) THEN [sonar_status |-> NoStatus, queried |-> project_keys]
    ELSE IF answers[i] # NoStatus
        THEN [sonar_status |-> answers[i], queried |-> SubSeq(project_keys, 1, i)]
    ELSE query_keys(project_keys, answers, i + 1)

\* how a source call can end other than with its data
Failures == {"nonzero_exit", "exception"}

\* the outcome of a source call: how it ended and, when it ended "ok", its data
Ok(value) == [end |-> "ok", value |-> value]

Failed(how) == [end |-> how, value |-> <<>>]

\* GitHubClient.get_user_repos: the listing, [] when gh fails
get_user_repos(outcome) == IF outcome.end \in Failures THEN <<>> ELSE outcome.value

\* GitHubClient.get_repo_issues: the open issues, [] when gh fails
get_repo_issues(outcome) == IF outcome.end \in Failures THEN <<>> ELSE outcome.value

\* GitHubClient.get_repo_prs.  debug_log / errors_log: open(..., "a") of
\* /tmp/pr-fetch-debug.log / /tmp/pr-fetch-errors.log succeeds.  Line 108 writes the
\* debug log before the try block; the except block (186) writes the errors log.
get_repo_prs(outcome, debug_log, errors_log) ==
    IF ~debug_log THEN [error |-> "OSError", value |-> <<>>]
    ELSE IF outcome.end = "exception"
        THEN [error |-> IF errors_log THEN NoError ELSE "OSError", value |-> <<>>]
    ELSE IF outcome.end = "nonzero_exit" THEN [error |-> NoError, value |-> <<>>]
    ELSE [error |-> NoError, value |-> outcome.value]

\* no current branch (None)
NoBranch == "None"

\* the entries git status --porcelain can list: the two status letters XY and the
\* path ("??": untracked; " M": modified, not staged; "M ": staged; "A ": added)
StatusEntries ==
    {[xy |-> xy, path |-> path] :
        xy \in {<<"?", "?">>, <<" ", "M">>, <<"M", " ">>, <<"A", " ">>},
        path \in {<<"f">>, <<"?", "?">>}}

RECURSIVE porcelain(_)
\* stdout of git status --porcelain (209-217): one line "XY path" per entry
porcelain(entries) ==
    IF entries = <<>> THEN <<>>
    ELSE Head(entries).xy \o <<" ">> \o Head(entries).path \o <<"\n">>
         \o porcelain(Tail(entries))

\* how the status query ends
StatusEnds ==
    {Failed(how) : how \in Failures}
    \cup {Ok(porcelain(entries)) :
            entries \in UNION {[1..n -> StatusEntries] : n \in 0..MaxLines}}

\* how git rev-parse --abbrev-ref HEAD ends
BranchEnds == {Failed(how) : how \in Failures} \cup {Ok(<<"main">>)}

\* stdout.decode().strip().split('\n') (222): the text without its leading and
\* trailing whitespace, cut at every newline; '' gives ['']
status_lines(stdout) ==
    LET inked == {i \in 1..Len(stdout) : stdout[i] \notin {" ", "\n"}}
        stripped == IF inked = {} THEN <<>>
                    ELSE SubSeq(stdout, CHOOSE i \in inked : \A j \in inked : i <= j,
                                        CHOOSE i \in inked : \A j \in inked : i >= j)
        breaks == {i \in 1..Len(stripped) : stripped[i] = "\n"}
        starts == {1} \cup {i + 1 : i \in breaks}
        start(k) == CHOOSE b \in starts : Cardinality({c \in breaks : c < b}) = k - 1
        after(b) == {c \in breaks : c >= b} \cup {Len(stripped) + 1}
        stop(k) == CHOOSE c \in after(start(k)) : \A d \in after(start(k)) : c <= d
    IN  [k \in 1..(Cardinality(breaks) + 1) |-> SubSeq(stripped, start(k), stop(k) - 1)]

\* a determination that counts every listed entry
has_changes_any_line(lines) == \E k \in 1..Len(lines) : lines[k] # <<>>

\* any(line and not line.startswith('??') for line in status_lines) (223-226)
has_changes(lines) ==
    \E k \in 1..Len(lines) :
        /\ lines[k] # <<>>
        /\ ~(Len(lines[k]) >= 2 /\ lines[k][1] = "?" /\ lines[k][2] = "?")

\* a probe that gives up its findings whenever a step fails
get_git_status_all_or_nothing(probe) ==
    IF probe.status.end = "ok" /\ probe.branch.end = "ok"
        THEN [has_uncommitted_changes |-> has_changes(status_lines(probe.status.value)),
              current_branch |-> probe.branch.value[1]]
        ELSE [has_uncommitted_changes |-> FALSE, current_branch |-> NoBranch]

\* GitHubClient.get_git_status: the status query (208-226), then the branch query
\* (228-245); probe.status / probe.branch is how each query ends.  An exception of
\* either query reaches the except clause (249-250).
get_git_status(probe) ==
    IF probe.status.end = "exception"
        THEN [has_uncommitted_changes |-> FALSE, current_branch |-> NoBranch]
    ELSE IF probe.status.end = "nonzero_exit"
        THEN [has_uncommitted_changes |-> FALSE, current_branch |-> NoBranch]
    ELSE LET changed == has_changes(status_lines(probe.status.value))
         IN  IF probe.branch.end = "exception"
                 THEN [has_uncommitted_changes |-> FALSE, current_branch |-> NoBranch]
             ELSE IF probe.branch.end = "nonzero_exit"
                 THEN [has_uncommitted_changes |-> changed, current_branch |-> NoBranch]
             ELSE [has_uncommitted_changes |-> changed,
                   current_branch |-> probe.branch.value[1]]

\* fetch_all_repos.fetch_repo_data for one listed repository; src holds what the
\* listing says (has_issues_enabled), whether a local clone exists and how each
\* source call ends.  An exception of get_repo_prs leaves through asyncio.gather.
fetch_repo_data_run(name, src, debug_log, errors_log) ==
    LET issues == IF src.has_issues_enabled THEN get_repo_issues(src.issues) ELSE <<>>
        pull_requests == get_repo_prs(src.prs, debug_log, errors_log)
        has_uncommitted == IF src.local
                               THEN get_git_status(src.git).has_uncommitted_changes
                               ELSE FALSE
    IN  [error |-> pull_requests.error,
         value |-> RepoOverview(name, Len(issues), issues, pull_requests.value,
                                NoStatus, FALSE, src.local, has_uncommitted)]

\* data.py 380
batch_size == 10

RECURSIVE run_batches(_, _, _, _, _)
\* the batch loop (381-387) from index i on: asyncio.gather over one batch, its
\* results appended in order; an exception of any fetch_repo_data ends the pass
run_batches(rs, srcs, debug_log, errors_log, i) ==
    IF i >= Len(rs) THEN [error |-> NoError, value |-> <<>>]
    ELSE LET upto == IF i + batch_size < Len(rs) THEN i + batch_size ELSE Len(rs)
             batch == SubSeq(rs, i + 1, upto)
             results == [k \in 1..Len(batch) |->
                            fetch_repo_data_run(batch[k], srcs[batch[k]],
                                                debug_log, errors_log)]
             rest == run_batches(rs, srcs, debug_log, errors_log, i + batch_size)
         IN  IF \E k \in 1..Len(batch) : results[k].error # NoError
                THEN [error |-> "OSError", value |-> <<>>]
             ELSE IF rest.error # NoError THEN rest
             ELSE [error |-> NoError,
                   value |-> [k \in 1..Len(batch) |-> results[k].value] \o rest.value]

\* a pass that fetches the whole listing and leaves the filter for later
listed_repos_unfiltered(data, listing) == get_user_repos(listing)

\* the listing after the inclusion filter (327-330)
listed_repos(data, listing) ==
    SelectSeq(get_user_repos(listing), LAMBDA name : should_include_repo(data, name))

\* fetch_all_repos: what it returns, or the exception that leaves it
fetch_all_repos_run(data, listing, srcs, debug_log, errors_log) ==
    run_batches(listed_repos(data, listing), srcs, debug_log, errors_log, 0)

\* fetch_single_repo: issues, PRs, then the key loop when check is set, then the
\* local state; queried lists the keys sent to get_project_status
fetch_single_repo_run(owner, repo, org, check, src, answers, debug_log, errors_log) ==
    LET issues == get_repo_issues(src.issues)
        pull_requests == get_repo_prs(src.prs, debug_log, errors_log)
        found == IF check THEN query_keys(guess_project_key(owner, repo, org), answers, 1)
                 ELSE [sonar_status |-> NoStatus, queried |-> <<>>]
        has_uncommitted == IF src.local
                               THEN get_git_status(src.git).has_uncommitted_changes
                               ELSE FALSE
    IN  IF pull_requests.error # NoError
            THEN [error |-> pull_requests.error, value |-> <<>>, queried |-> <<>>]
            ELSE [error |-> NoError,
                  value |-> <<RepoOverview(repo, Len(issues), issues, pull_requests.value,
                                           found.sonar_status, check, src.local,
                                           has_uncommitted)>>,
                  queried |-> found.queried]

\* names a configuration file or a listing can mention
ConfigNames == RepoNames \cup {"c"}

ConfigLists == {<<>>, <<"a">>, <<"b">>, <<"a", "b">>, <<"c", "a">>}

\* a configuration file without either key
NoKeys == [key \in {} |-> <<>>]

\* Config.data: both keys, one of them, or neither
Configs ==
    {[included_repos |-> inc, excluded_repos |-> exc] : inc, exc \in ConfigLists}
    \cup {[included_repos |-> inc] : inc \in ConfigLists}
    \cup {[excluded_repos |-> exc] : exc \in ConfigLists}
    \cup {NoKeys}

\* owner, repository and organisation strings, with and without hyphens
Owners == {<<"o">>, <<"o", "-", "p">>}

Slugs == {<<"w">>, <<"w", "-", "x">>}

Orgs == {<<>>, <<"m">>}

\* what get_project_status can return for one query
KeyAnswers == {NoStatus, "OK", "ERROR"}

\* per repository: the listing's hasIssuesEnabled, the ends of the issue and PR calls,
\* the local clone and the end of the git probe
Sources ==
    LET issue_ends == {Failed(how) : how \in Failures}
                      \cup {Ok(IssueList(k)) : k \in 0..PipeMaxIssues}
        pr_ends == {Failed(how) : how \in Failures} \cup {Ok(PRList(k)) : k \in 0..1}
        Untracked == porcelain(<<[xy |-> <<"?", "?">>, path |-> <<"f">>]>>)
        Modified == porcelain(<<[xy |-> <<" ", "M">>, path |-> <<"f">>]>>)
        clean == [status |-> Ok(porcelain(<<>>)), branch |-> Ok(<<"main">>)]
        probes == {[local |-> FALSE, git |-> clean]}
                  \cup {[local |-> TRUE, git |-> [status |-> Failed("exception"),
                                                  branch |-> Ok(<<"main">>)]]}
                  \cup {[local |-> TRUE, git |-> [status |-> Ok(Untracked),
                                                  branch |-> Ok(<<"main">>)]]}
                  \cup {[local |-> TRUE, git |-> [status |-> Ok(Modified), branch |-> b]] :
                            b \in BranchEnds}
    IN  {[has_issues_enabled |-> TRUE, issues |-> i, prs |-> p,
          local |-> g.local, git |-> g.git] : i \in issue_ends, p \in pr_ends, g \in probes}
        \cup {[has_issues_enabled |-> FALSE, issues |-> Ok(IssueList(1)), prs |-> p,
               local |-> g.local, git |-> g.git] : p \in pr_ends, g \in probes}

\* the configurations and the ends of gh repo list of the full passes
PassConfigs == {NoKeys, [included_repos |-> <<"a">>], [excluded_repos |-> <<"a">>]}

PassListings ==
    {Failed(how) : how \in Failures}
    \cup {Ok(l) : l \in {<<>>, <<"a">>, <<"a", "b">>, <<"b", "a">>}}

FetchInit ==
    /\ repos = <<>>
    /\ check_sonar = FALSE
    /\ view_mode = "list"
    /\ expanded = {}
    /\ options = <<>>
    /\ highlighted = None
    /\ cards = <<>>
    /\ focused = None
    /\ keys = <<>>
    /\ raised = NoError
    /\ last = "start"
    /\ call = <<>>
    /\ flight = <<>>

\* what a run of a pipeline function leaves alone
widgets == <<check_sonar, view_mode, expanded, options, highlighted, cards, focused,
             keys, flight>>

\* Config.should_include_repo(repo_name) and Config.is_excluded(repo_name)
ShouldIncludeRepo ==
    /\ last = "start"
    /\ \E data \in Configs, repo_name \in ConfigNames :
        call' = [data |-> data, repo_name |-> repo_name,
                 should_include_repo |-> should_include_repo(data, repo_name),
                 is_excluded |-> is_excluded(data, repo_name)]
    /\ last' = "should_include_repo"
    /\ UNCHANGED <<repos, raised, widgets>>

\* GitHubClient.get_git_status(repo_path)
GetGitStatus ==
    /\ last = "start"
    /\ \E status \in StatusEnds, branch \in BranchEnds :
        call' = [status |-> status, branch |-> branch,
                 result |-> get_git_status([status |-> status, branch |-> branch])]
    /\ last' = "get_git_status"
    /\ UNCHANGED <<repos, raised, widgets>>

\* how subprocess.Popen(wt.exe ...) ends
SpawnEnds == {"ok", "FileNotFoundError", "exception"}

\* launch_claude(repo, config, issue, pr).  issue / pr: <<>> (None) or <<number>>;
\* debug: config.data.get("debug", False); first_write / handler_write: open(
\* "/tmp/claude-launch-debug.log", "a") succeeds in the try block (107-113) / in the
\* except clause that handles the failure (124-134); spawn: how Popen ends
launch_claude(local, debug, first_write, handler_write, spawn, issue, pr) ==
    LET launched == [error |-> NoError, spawned |-> TRUE,
                     value |-> IF pr # <<>> THEN <<"Launched Claude for PR", pr[1]>>
                               ELSE IF issue # <<>> THEN <<"Launched Claude for #", issue[1]>>
                               ELSE <<"Launched Claude for", 0>>]
        handled(message, spawned) ==
            IF debug /\ ~handler_write
                THEN [error |-> "OSError", spawned |-> spawned, value |-> <<>>]
                ELSE [error |-> NoError, spawned |-> spawned, value |-> <<message, 0>>]
    IN  IF ~local
            THEN [error |-> NoError, spawned |-> FALSE,
                  value |-> <<"Repo not found locally", 0>>]
        ELSE IF debug /\ ~first_write THEN handled("Error launching", FALSE)
        ELSE IF spawn = "FileNotFoundError" THEN handled("Error: File not found", TRUE)
        ELSE IF spawn = "exception" THEN handled("Error launching", TRUE)
        ELSE launched

LaunchClaude ==
    /\ last = "start"
    /\ \E local, debug, first_write, handler_write \in BOOLEAN, spawn \in SpawnEnds,
          issue \in {<<>>, <<1>>}, pr \in {<<>>, <<2>>} :
       \E run \in {launch_claude(local, debug, first_write, handler_write, spawn,
                                 issue, pr)} :
        /\ call' = [local |-> local, debug |-> debug, first_write |-> first_write,
                    handler_write |-> handler_write, spawn |-> spawn, issue |-> issue,
                    pr |-> pr, spawned |-> run.spawned, result |-> run.value]
        /\ raised' = run.error
    /\ last' = "launch_claude"
    /\ UNCHANGED <<repos, widgets>>

\* what the quality-gate endpoint can answer: nothing usable (the request or the
\* JSON decoding failed, _fetch_url returns None), JSON that is no object, an object
\* without projectStatus, a projectStatus that is no object, a projectStatus without
\* status, or a projectStatus with a status
Responses ==
    {[shape |-> shape, status |-> NoStatus] :
        shape \in {"no_response", "not_an_object", "no_projectStatus",
                   "projectStatus_not_an_object", "no_status"}}
    \cup {[shape |-> "well_formed", status |-> status] : status \in SonarStatuses}

\* SonarCloudClient.get_project_status: the status of the SonarStatus it returns,
\* NoStatus when it returns None.  .get on something that is no object raises
\* AttributeError, which the except clause turns into None.
get_project_status(response) ==
    IF response.shape = "no_response" THEN NoStatus
    ELSE IF response.shape = "not_an_object" THEN NoStatus
    ELSE IF response.shape = "no_projectStatus" THEN "NONE"
    ELSE IF response.shape = "projectStatus_not_an_object" THEN NoStatus
    ELSE IF response.shape = "no_status" THEN "NONE"
    ELSE response.status

\* get_project_status(project_key) for the first candidate key, the endpoint
\* answering response; the key loop goes on to the second key when it returns None
GetProjectStatus ==
    /\ last = "start"
    /\ \E response \in Responses, second \in KeyAnswers :
       \E result \in {get_project_status(response)} :
        call' = [response |-> response, result |-> result, second |-> second,
                 found |-> query_keys(<<"k1", "k2">>, <<result, second>>, 1)]
    /\ last' = "get_project_status"
    /\ UNCHANGED <<repos, raised, widgets>>

\* the values of a check context's "state" and "conclusion" ("None": no such key
\* or null)
ContextStates == {"None", "SUCCESS", "FAILURE", "PENDING"}

ContextConclusions == {"None", "", "success", "TIMED_OUT", "IN_PROGRESS", "NEUTRAL"}

Contexts == [state : ContextStates, conclusion : ContextConclusions]

\* the lists of check contexts of a pull request
ContextLists == UNION {[1..n -> Contexts] : n \in 0..MaxContexts}

\* bool(value) of a string or None
Truthy(value) == value \notin {"None", ""}

\* get_repo_prs, 149-159: checks_status of the contexts of statusCheckRollup
\* (NoStatus: None)
checks_status(contexts) ==
    IF contexts = <<>> THEN NoStatus
    ELSE LET statuses == [i \in 1..Len(contexts) |->
                             IF Truthy(contexts[i].state) THEN contexts[i].state
                             ELSE contexts[i].conclusion]
         IN  IF \E i \in 1..Len(statuses) : statuses[i] \in {"FAILURE", "failure", "TIMED_OUT"}
                 THEN "FAILURE"
             ELSE IF \E i \in 1..Len(statuses) :
                         statuses[i] \in {"PENDING", "pending", "IN_PROGRESS"}
                 THEN "PENDING"
             ELSE IF \A i \in 1..Len(statuses) :
                         Truthy(statuses[i]) => statuses[i] \in {"SUCCESS", "success"}
                 THEN "SUCCESS"
             ELSE NoStatus

ChecksStatus ==
    /\ last = "start"
    /\ \E contexts \in ContextLists :
        call' = [contexts |-> contexts, checks_status |-> checks_status(contexts)]
    /\ last' = "checks_status"
    /\ UNCHANGED <<repos, raised, widgets>>

\* SonarCloudClient.guess_project_key(owner, repo)
GuessProjectKey ==
    /\ last = "start"
    /\ \E owner \in Owners, repo \in Slugs, org \in Orgs :
        call' = [owner |-> owner, repo |-> repo, org |-> org,
                 patterns |-> guess_project_key(owner, repo, org)]
    /\ last' = "guess_project_key"
    /\ UNCHANGED <<repos, raised, widgets>>

\* fetch_all_repos(config)
FetchAllRepos ==
    /\ last = "start"
    /\ \E data \in PassConfigs, listing \in PassListings, debug_log, errors_log \in BOOLEAN :
       \E srcs \in [Range(listed_repos(data, listing)) -> Sources] :
       \E pass \in {fetch_all_repos_run(data, listing, srcs, debug_log, errors_log)} :
        /\ call' = [data |-> data, listing |-> listing, srcs |-> srcs,
                    debug_log |-> debug_log, errors_log |-> errors_log]
        /\ repos' = pass.value
        /\ raised' = pass.error
    /\ last' = "fetch_all_repos"
    /\ UNCHANGED widgets

\* fetch_single_repo(config, owner, repo_name, check_sonar)
FetchSingleRepo ==
    /\ last = "start"
    /\ \E owner \in Owners, repo \in Slugs, org \in Orgs, check \in BOOLEAN,
          src \in {x \in Sources : x.has_issues_enabled /\ ~x.local},
          debug_log, errors_log \in BOOLEAN :
       \E answers \in [1..Len(guess_project_key(owner, repo, org)) -> KeyAnswers] :
       \E run \in {fetch_single_repo_run(owner, repo, org, check, src, answers,
                                         debug_log, errors_log)} :
        /\ call' = [owner |-> owner, repo |-> repo, org |-> org, check |-> check,
                    src |-> src, answers |-> answers, queried |-> run.queried,
                    debug_log |-> debug_log, errors_log |-> errors_log]
        /\ repos' = run.value
        /\ raised' = run.error
    /\ last' = "fetch_single_repo"
    /\ UNCHANGED widgets

\* the repositories on screen when sonar-all starts: one or two, all unchecked or all
\* carrying a status of an earlier check
ShownNames == {<<s>> : s \in Slugs} \cup {<<<<"w">>, <<"w", "-", "x">>>>}

\* action_sonar_all, the loop over self.repos (851-866): the key loop for every
\* repository in turn, each ending checked
sonar_all_keys(rs, owner, org, answers) ==
    LET found == [i \in 1..Len(rs) |->
                     query_keys(guess_project_key(owner, rs[i].name, org), answers[i], 1)]
    IN  [repos |-> [i \in 1..Len(rs) |->
                       [rs[i] EXCEPT !.sonar_status = found[i].sonar_status,
                                     !.sonar_checked = TRUE]],
         queried |-> [i \in 1..Len(rs) |-> found[i].queried]]

SonarAllKeys ==
    /\ last = "start"
    /\ \E names \in ShownNames, owner \in Owners, org \in Orgs, prior \in {NoStatus, "WARN"} :
       \E answers \in [1..Len(names) ->
                          [1..Len(guess_project_key(owner, names[1], org)) -> KeyAnswers]] :
       \E rs \in {[i \in 1..Len(names) |->
                      RepoOverview(names[i], 0, <<>>, <<>>, prior, prior # NoStatus,
                                   FALSE, FALSE)]} :
       \E run \in {sonar_all_keys(rs, owner, org, answers)} :
        /\ call' = [owner |-> owner, org |-> org, prior |-> rs, answers |-> answers,
                    queried |-> run.queried]
        /\ repos' = run.repos
    /\ last' = "sonar_all_keys"
    /\ UNCHANGED <<raised, widgets>>

FetchNext ==
    \/ ShouldIncludeRepo
    \/ GuessProjectKey
    \/ FetchAllRepos
    \/ FetchSingleRepo
    \/ SonarAllKeys
    \/ GetGitStatus
    \/ LaunchClaude
    \/ GetProjectStatus
    \/ ChecksStatus

SpecFetch == FetchInit /\ [][FetchNext]_vars

-----------------------------------------------------------------------------
(* The run handlers in the application's message loop.  flight.queue holds the *)
(* messages waiting for the loop (the call_later callback of on_mount, then    *)
(* keys bound to a run), flight.active the handlers that have begun and not    *)
(* returned, each with the await it is suspended at.  The loop awaits the      *)
(* handler it invoked before it takes the next message; a handler that a       *)
(* handler does not await would leave the loop free.                           *)

\* BINDINGS: the keys bound to an aggregation run
RunBindings == [r |-> "refresh_repo", R |-> "refresh_all",
                s |-> "sonar_repo", S |-> "sonar_all"]

RunKeys == DOMAIN RunBindings

\* the handlers that return before they start a run when no repository is selected
NeedSelection == {"refresh_repo", "sonar_repo"}

PumpInit ==
    /\ repos = <<>>
    /\ check_sonar = FALSE
    /\ view_mode = "list"
    /\ expanded = {}
    /\ options = <<>>
    /\ highlighted = None
    /\ cards = <<>>
    /\ focused = None
    /\ keys = <<>>
    /\ raised = NoError
    /\ last = "mount"
    /\ call = <<>>
    /\ flight = [queue |-> <<"initial_load">>, active |-> <<>>]

\* what the message loop itself leaves alone
shell == <<check_sonar, view_mode, expanded, cards, focused, call>>

\* what a handler leaves alone until its fetch has returned
display == <<repos, options, highlighted, keys>>

\* a modal LoadingScreen is on top of the screen stack
loading == \E i \in 1..Len(flight.active) : flight.active[i].screen

\* the message loop is inside a handler it awaits
busy == \E i \in 1..Len(flight.active) : flight.active[i].awaited

\* a handler that pushes the LoadingScreen and then runs its body as a worker the
\* message loop does not wait for
begin_unawaited(op, selected) ==
    [op |-> op, pc |-> "sleep", awaited |-> FALSE, screen |-> TRUE,
     selected |-> selected, old |-> <<>>]

\* a handler whose body runs as a task of its own: the handler returns at once and
\* the LoadingScreen is pushed by the task
begin_detached(op, selected) ==
    [op |-> op, pc |-> "sleep", awaited |-> FALSE, screen |-> FALSE,
     selected |-> selected, old |-> <<>>]

\* the first lines of a run handler up to its first await: get_selected_repo (in
\* the handlers that need one), push_screen(LoadingScreen), then asyncio.sleep(0.1),
\* awaited by the message loop
begin(op, selected) ==
    [op |-> op, pc |-> "sleep", awaited |-> TRUE, screen |-> TRUE,
     selected |-> selected, old |-> <<>>]

\* a key bound to a run is pressed.  Under the LoadingScreen the key either finds no
\* binding (a modal screen hides the application's bindings) or waits in the queue
\* behind the handler the loop is awaiting.
KeyPress ==
    /\ raised = NoError
    /\ Len(flight.queue) < MaxQueue
    /\ \E key \in RunKeys, waits \in BOOLEAN :
        flight' = [flight EXCEPT !.queue = IF loading /\ ~waits THEN @
                                           ELSE Append(@, RunBindings[key])]
    /\ last' = "key"
    /\ UNCHANGED <<shell, display, raised>>

\* the loop takes its next message and invokes the handler; selected is the
\* repository under the cursor (<<>>: none)
Dispatch ==
    /\ raised = NoError
    /\ ~busy
    /\ flight.queue # <<>>
    /\ \E op \in {Head(flight.queue)},
          selected \in {<<>>} \cup {<<repos[i].name>> : i \in 1..Len(repos)} :
        flight' = [queue |-> Tail(flight.queue),
                   active |-> IF op \in NeedSelection /\ selected = <<>> THEN flight.active
                              ELSE Append(flight.active, begin(op, selected))]
    /\ last' = "dispatch"
    /\ UNCHANGED <<shell, display, raised>>

\* asyncio.sleep(0.1) returns: the handler goes on to its fetch; _do_refresh saves
\* old_sonar_status (683-686) before it awaits fetch_all_repos
Wake ==
    /\ raised = NoError
    /\ \E i \in 1..Len(flight.active) :
        /\ flight.active[i].pc = "sleep"
        /\ flight' = [flight EXCEPT
                        !.active[i].pc = "fetch",
                        !.active[i].old =
                            IF flight.active[i].op \in {"initial_load", "refresh_all"}
                                THEN repos ELSE @]
    /\ last' = "wake"
    /\ UNCHANGED <<shell, display, raised>>

\* what the sources return in these runs: no open issue, no pull request, no clone
PumpData == <<0, 0, <<FALSE, FALSE>>>>

\* the collection a handler installs when its fetch has returned: _do_refresh
\* 688-693, action_refresh_repo 757-769, action_sonar_repo 814-826, action_sonar_all
\* 851-866
installed(run, rs, check) ==
    IF run.op \in {"initial_load", "refresh_all"}
        THEN {restore_sonar(run.old, [k \in 1..Len(l) |-> fetch_repo_data(l[k], PumpData)]) :
                 l \in Listings}
    ELSE IF run.op \in NeedSelection
        THEN {replace_repo(rs, fetch_single_repo([name |-> run.selected[1]],
                                                 run.op = "sonar_repo" \/ check,
                                                 PumpData, sonar)) :
                 sonar \in (IF run.op = "sonar_repo" \/ check THEN SonarResults
                            ELSE {NoStatus})}
    ELSE {[k \in 1..Len(rs) |->
              [rs[k] EXCEPT !.sonar_status = found[k], !.sonar_checked = TRUE]] :
             found \in [1..Len(rs) -> SonarResults]}

\* the fetch returns or raises; the handler installs the collection and shows it,
\* the finally block pops the LoadingScreen and the handler returns (an exception
\* leaves the handler and ends the application)
Finish ==
    /\ raised = NoError
    /\ \E i \in 1..Len(flight.active), error \in {NoError, "OSError"} :
        /\ flight.active[i].pc = "fetch"
        /\ flight' = [flight EXCEPT !.active =
                          SubSeq(@, 1, i - 1) \o SubSeq(@, i + 1, Len(@))]
        /\ last' = flight.active[i].op
        /\ IF error # NoError
              THEN raised' = error /\ UNCHANGED display
              ELSE \E new \in installed(flight.active[i], repos, check_sonar) :
                   \E list \in {RepoListWidget_set_repos(new, expanded, highlighted, 0)} :
                    /\ repos' = new
                    /\ options' = list.options
                    /\ keys' = list.keys
                    /\ raised' = list.error
                    /\ highlighted' =
                           IF flight.active[i].op \in NeedSelection
                               THEN _select_by_id(list.options, list.highlighted,
                                                  <<"repo", flight.active[i].selected[1], 0>>)
                               ELSE list.highlighted
    /\ UNCHANGED shell

PumpNext ==
    \/ KeyPress
    \/ Dispatch
    \/ Wake
    \/ Finish

SpecPump == PumpInit /\ [][PumpNext]_vars

-----------------------------------------------------------------------------
(* fetch_all_repos as a process: the batch loop, the progress callback and the  *)
(* tasks of asyncio.gather finishing in any order.  Repositories are numbered   *)
(* in listing order.  flight holds the coroutine's locals and what has been     *)
(* observed of it: the requests sent and the calls of the callback.             *)

\* the sizes of the listings of the passes
PassSizes == {0, 1, 10, 11, MaxRepos}

\* the passes: the configuration and the repositories whose PR call raises
\* (get_repo_prs with a log that cannot be written)
Passes ==
    {[data |-> NoKeys, raising |-> {}],
     [data |-> [excluded_repos |-> <<2, 11>>], raising |-> {}],
     [data |-> NoKeys, raising |-> {13}]}

\* the listed repositories with hasIssuesEnabled false / with a local clone
IssuesDisabled == {3}

LocalClones == {1, 12}

\* the batch that takes every remaining repository
batch_of_rest(rs, i) == SubSeq(rs, i + 1, Len(rs))

\* repos[i:i + batch_size] (382)
batch_of(rs, i) ==
    SubSeq(rs, i + 1, IF i + batch_size < Len(rs) THEN i + batch_size ELSE Len(rs))

\* a callback that reports the repositories finished so far
progress_args_finished(i, batch, total) ==
    [current |-> i, total |-> total, label |-> (i \div batch_size) + 1]

\* a callback that reports the batch as the total
progress_args_per_batch(i, batch, total) ==
    [current |-> i + Len(batch), total |-> Len(batch), label |-> (i \div batch_size) + 1]

\* the arguments of progress_callback (384)
progress_args(i, batch, total) ==
    [current |-> i + Len(batch), total |-> total, label |-> (i \div batch_size) + 1]

\* what the sources answer for a listed repository: one open issue that carries
\* the repository's number, no pull request, a clean clone where there is one
source_of(name) ==
    [has_issues_enabled |-> name \notin IssuesDisabled, issues |-> Ok(<<name>>),
     prs |-> Ok(<<>>), local |-> name \in LocalClones,
     git |-> [status |-> Ok(porcelain(<<>>)), branch |-> Ok(<<"main">>)]]

\* what fetch_repo_data returns for a repository
summary_of(name) == fetch_repo_data_run(name, source_of(name), TRUE, TRUE).value

\* results in the order the tasks finished (first: the first task to finish)
results_as_completed(batch, first) ==
    <<summary_of(first)>>
    \o [k \in 1..(Len(batch) - 1) |->
           summary_of(SelectSeq(batch, LAMBDA name : name # first)[k])]

\* asyncio.gather(*[fetch_repo_data(r) for r in batch]) (386): the results in the
\* order of its arguments
gather_results(batch, first) == [k \in 1..Len(batch) |-> summary_of(batch[k])]

BatchInit ==
    /\ repos = <<>>
    /\ check_sonar = FALSE
    /\ view_mode = "list"
    /\ expanded = {}
    /\ options = <<>>
    /\ highlighted = None
    /\ cards = <<>>
    /\ focused = None
    /\ keys = <<>>
    /\ raised = NoError
    /\ last = "start"
    /\ \E n \in PassSizes, pass \in Passes :
        /\ call = [n |-> n, data |-> pass.data, raising |-> pass.raising]
        /\ flight = [kept |-> listed_repos(pass.data, Ok([k \in 1..n |-> k])),
                     i |-> 0, pc |-> "loop", running |-> {}, finished |-> {},
                     first |-> 0, requests |-> {}, calls |-> <<>>, overviews |-> <<>>]

still == <<repos, check_sonar, view_mode, expanded, options, highlighted, cards,
           focused, keys, call>>

\* the batch of the current iteration
batch == batch_of(flight.kept, flight.i)

\* 383-384: the callback is awaited at the top of the iteration
ProgressCallback ==
    /\ flight.pc = "loop"
    /\ flight.i < Len(flight.kept)
    /\ flight' = [flight EXCEPT
                    !.pc = "spawn",
                    !.calls = Append(@, [args |-> progress_args(flight.i, batch,
                                                               Len(flight.kept)),
                                         finished |-> Cardinality(flight.finished)])]
    /\ last' = "progress_callback"
    /\ UNCHANGED <<still, raised>>

\* 386: gather starts one fetch_repo_data per repository of the batch; each sends
\* its issue request (unless issues are disabled) and its PR request (343-346)
Gather ==
    /\ flight.pc = "spawn"
    /\ flight' = [flight EXCEPT
                    !.pc = "gather",
                    !.running = Range(batch),
                    !.first = 0,
                    !.requests = @ \cup {<<name, "prs">> : name \in Range(batch)}
                                   \cup {<<name, "issues">> :
                                            name \in Range(batch) \ IssuesDisabled}]
    /\ last' = "gather"
    /\ UNCHANGED <<still, raised>>

\* one fetch_repo_data finishes: after its issue and PR calls, the git probe of a
\* local clone (347-359), then its summary
TaskDone ==
    /\ flight.pc = "gather"
    /\ \E name \in flight.running \ call.raising :
        flight' = [flight EXCEPT
                     !.running = @ \ {name},
                     !.finished = @ \cup {name},
                     !.first = IF @ = 0 THEN name ELSE @,
                     !.requests = IF name \in LocalClones THEN @ \cup {<<name, "git">>}
                                  ELSE @]
    /\ last' = "task_done"
    /\ UNCHANGED <<still, raised>>

\* the PR call of one fetch_repo_data raises: gather passes the exception on and
\* the pass ends with it, the other tasks of the batch still running
TaskRaise ==
    /\ flight.pc = "gather"
    /\ \E name \in flight.running \cap call.raising :
        flight' = [flight EXCEPT !.pc = "raised", !.running = @ \ {name}]
    /\ raised' = "OSError"
    /\ last' = "task_raise"
    /\ UNCHANGED still

\* 386-387: every task of the batch has finished; the results are appended
Extend ==
    /\ flight.pc = "gather"
    /\ flight.running = {}
    /\ flight' = [flight EXCEPT
                    !.pc = "loop",
                    !.i = @ + batch_size,
                    !.overviews = @ \o gather_results(batch, flight.first)]
    /\ last' = "extend"
    /\ UNCHANGED <<still, raised>>

\* 389: return overviews
Return ==
    /\ flight.pc = "loop"
    /\ flight.i >= Len(flight.kept)
    /\ flight' = [flight EXCEPT !.pc = "returned"]
    /\ last' = "return"
    /\ UNCHANGED <<still, raised>>

BatchNext ==
    \/ ProgressCallback
    \/ Gather
    \/ TaskDone
    \/ TaskRaise
    \/ Extend
    \/ Return

SpecBatch == BatchInit /\ [][BatchNext]_vars

-----------------------------------------------------------------------------
(* One fetch_repo_data coroutine, await by await: the issue and PR calls under  *)
(* asyncio.gather, then the git probe of a local clone.  call holds what the    *)
(* sources answer, flight where each call stands.                               *)

RepoInit ==
    /\ repos = <<>>
    /\ check_sonar = FALSE
    /\ view_mode = "list"
    /\ expanded = {}
    /\ options = <<>>
    /\ highlighted = None
    /\ cards = <<>>
    /\ focused = None
    /\ keys = <<>>
    /\ raised = NoError
    /\ last = "start"
    /\ \E src \in Sources, debug_log, errors_log \in BOOLEAN :
        call = [src |-> src, debug_log |-> debug_log, errors_log |-> errors_log]
    /\ flight = [pc |-> "start", issues |-> "idle", prs |-> "idle", probe |-> "idle"]

\* a probe that is started together with the issue and PR calls
probe_may_start_at_once(f) == f.pc = "gather"

\* 346: the coroutine goes on to the probe when gather has both results
probe_may_start(f) == f.pc = "gather" /\ f.issues \in {"done", "skipped"} /\ f.prs = "done"

\* 343-346: gather starts the issue call (or the sleep(0) that stands in for it when
\* issues are disabled) and the PR call
StartFetches ==
    /\ flight.pc = "start"
    /\ flight' = [flight EXCEPT
                    !.pc = "gather",
                    !.issues = IF call.src.has_issues_enabled THEN "flight" ELSE "skipped",
                    !.prs = "flight"]
    /\ last' = "start_fetches"
    /\ UNCHANGED <<still, raised>>

\* get_repo_issues returns (with [] when gh failed)
IssuesEnd ==
    /\ flight.issues = "flight"
    /\ raised = NoError
    /\ flight' = [flight EXCEPT !.issues = "done"]
    /\ last' = "issues_end"
    /\ UNCHANGED <<still, raised>>

\* get_repo_prs returns, or raises when a log cannot be written; the exception
\* leaves gather and the coroutine
PRsEnd ==
    /\ flight.prs = "flight"
    /\ \E pull_requests \in {get_repo_prs(call.src.prs, call.debug_log, call.errors_log)} :
        /\ raised' = pull_requests.error
        /\ flight' = [flight EXCEPT
                        !.prs = "done",
                        !.pc = IF pull_requests.error # NoError THEN "raised" ELSE @]
    /\ last' = "prs_end"
    /\ UNCHANGED still

\* 347-359: get_local_repo_path, then await get_git_status for a local clone
ProbeStart ==
    /\ call.src.local
    /\ flight.probe = "idle"
    /\ probe_may_start(flight)
    /\ flight' = [flight EXCEPT !.probe = "flight"]
    /\ last' = "probe_start"
    /\ UNCHANGED <<still, raised>>

ProbeEnd ==
    /\ flight.probe = "flight"
    /\ raised = NoError
    /\ flight' = [flight EXCEPT !.probe = "done"]
    /\ last' = "probe_end"
    /\ UNCHANGED <<still, raised>>

\* 361-377: return RepoOverview(...)
ReturnSummary ==
    /\ flight.pc = "gather"
    /\ flight.issues \in {"done", "skipped"}
    /\ flight.prs = "done"
    /\ IF call.src.local THEN flight.probe = "done" ELSE flight.probe = "idle"
    /\ flight' = [flight EXCEPT !.pc = "returned"]
    /\ repos' = <<fetch_repo_data_run("a", call.src, call.debug_log, call.errors_log).value>>
    /\ last' = "return"
    /\ UNCHANGED <<check_sonar, view_mode, expanded, options, highlighted, cards,
                   focused, keys, call, raised>>

RepoNext ==
    \/ StartFetches
    \/ IssuesEnd
    \/ PRsEnd
    \/ ProbeStart
    \/ ProbeEnd
    \/ ReturnSummary

SpecRepo == RepoInit /\ [][RepoNext]_vars

-----------------------------------------------------------------------------
(* The detail screens: IssueDetailScreen and PRDetailScreen, opened over one    *)
(* repository's issues or pull requests.  flight is the screen: its list, its   *)
(* current_index, the item it holds (self.issue / self.pr) and, once mounted,   *)
(* what _update_content wrote into the title and the meta line.                 *)

\* __init__ (199-210, 386-397); issue_list / pr_list None becomes [].  content
\* is what the Static widgets of compose show: empty strings until updated.
detail_screen(kind, item, list, current_index) ==
    [kind |-> kind, item |-> item, list |-> list, current_index |-> current_index,
     content |-> [title |-> <<>>, meta |-> <<>>, body |-> <<>>], dismissed |-> None]

\* the screens action_expand_issue opens (985-1036): on an issue or PR row, the
\* item of the row with its index in the repository's list; on a header or a
\* card, the first item with index 0.  The last two are screens built with the
\* constructor's defaults: no list, index 0.
DetailScreens ==
    LET \* a repository's issues as the screen holds them: objects with a number
        IssueItems(n) == [i \in 1..n |-> [number |-> IssueList(n)[i]]]
    IN
    UNION {{detail_screen("issue", Nth(IssueItems(n), i), IssueItems(n), i) :
               i \in 0..(n - 1)} : n \in 1..MaxItems}
    \cup UNION {{detail_screen("pr", Nth(PRList(n), i), PRList(n), i) :
                    i \in 0..(n - 1)} : n \in 1..MaxItems}
    \cup {detail_screen("issue", [number |-> 1], <<>>, 0),
          detail_screen("pr", PullRequest(1), <<>>, 0)}

DetailInit ==
    /\ repos = <<>>
    /\ check_sonar = FALSE
    /\ view_mode = "list"
    /\ expanded = {}
    /\ options = <<>>
    /\ highlighted = None
    /\ cards = <<>>
    /\ focused = None
    /\ keys = <<>>
    /\ raised = NoError
    /\ last = "push_screen"
    /\ call = <<>>
    /\ flight \in DetailScreens

\* IssueDetailScreen._update_content (280-312): title, meta, labels and body; the
\* "(position/length)" part of the meta line is written only with a list
IssueDetailScreen_update_content(s) ==
    LET position == IF s.list # <<>> THEN <<s.current_index + 1, Len(s.list)>> ELSE <<>>
    IN  [error |-> NoError,
         screen |-> [s EXCEPT !.content = [title |-> <<s.item.number>>, meta |-> position,
                                           body |-> <<s.item.number>>]]]

\* PRDetailScreen._update_content (446-515): the title is written, then line 459
\* reads pr.author_name before the meta line, the status, the labels and the body
PRDetailScreen_update_content(s) ==
    LET position == IF s.list # <<>> THEN <<s.current_index + 1, Len(s.list)>> ELSE <<>>
    IN  IF "author_name" \in PullRequestFields
            THEN [error |-> NoError,
                  screen |-> [s EXCEPT !.content = [title |-> <<s.item.number>>,
                                                    meta |-> position,
                                                    body |-> <<s.item.number>>]]]
            ELSE [error |-> "AttributeError",
                  screen |-> [s EXCEPT !.content.title = <<s.item.number>>]]

\* IssueDetailScreen._navigate (269-278)
IssueDetailScreen_navigate(s, direction) ==
    IF s.list = <<>> THEN [error |-> NoError, screen |-> s]
    ELSE LET new_index == s.current_index + direction
         IN  IF 0 <= new_index /\ new_index < Len(s.list)
                 THEN IssueDetailScreen_update_content(
                          [s EXCEPT !.current_index = new_index,
                                    !.item = Nth(s.list, new_index)])
                 ELSE [error |-> NoError, screen |-> s]

\* PRDetailScreen._navigate (435-444)
PRDetailScreen_navigate(s, direction) ==
    IF s.list = <<>> THEN [error |-> NoError, screen |-> s]
    ELSE LET new_index == s.current_index + direction
         IN  IF 0 <= new_index /\ new_index < Len(s.list)
                 THEN PRDetailScreen_update_content(
                          [s EXCEPT !.current_index = new_index,
                                    !.item = Nth(s.list, new_index)])
                 ELSE [error |-> NoError, screen |-> s]

\* on_mount (225-227, 411-413)
Mount ==
    /\ last = "push_screen"
    /\ \E done \in {IF flight.kind = "issue" THEN IssueDetailScreen_update_content(flight)
                    ELSE PRDetailScreen_update_content(flight)} :
        /\ flight' = done.screen
        /\ raised' = done.error
    /\ last' = "mount"
    /\ UNCHANGED still

\* key_h / key_left (previous) and key_l / key_right (next), 253-267 and 419-433;
\* the screen takes keys once mounted, until it is dismissed or a handler raised
Navigate ==
    /\ raised = NoError
    /\ last \in {"mount", "previous", "next"}
    /\ \E key \in {"h", "left", "l", "right"} :
       \E direction \in {IF key \in {"h", "left"} THEN -1 ELSE 1} :
       \E done \in {IF flight.kind = "issue"
                        THEN IssueDetailScreen_navigate(flight, direction)
                        ELSE PRDetailScreen_navigate(flight, direction)} :
        /\ flight' = done.screen
        /\ raised' = done.error
        /\ last' = IF direction = -1 THEN "previous" ELSE "next"
    /\ UNCHANGED still

\* action_close_modal (229-231, 415-417): dismiss(result=self.current_index)
CloseModal ==
    /\ raised = NoError
    /\ last \in {"mount", "previous", "next"}
    /\ flight' = [flight EXCEPT !.dismissed = flight.current_index]
    /\ last' = "close_modal"
    /\ UNCHANGED <<still, raised>>

DetailNext ==
    \/ Mount
    \/ Navigate
    \/ CloseModal

SpecDetail == DetailInit /\ [][DetailNext]_vars

-----------------------------------------------------------------------------
(* Claims *)

\* C1: a full refresh without a quality-gate check installs, for every name that
\* the old and the fetched collection share and whose old summary had
\* sonar_checked, a summary with the old sonar_status and sonar_checked.
C1_FullRefreshCarriesSonar ==
    [][(last' = "refresh_all" /\ ~check_sonar) =>
        \A i \in 1..Len(repos), j \in 1..Len(repos') :
            (repos[i].name = repos'[j].name /\ repos[i].sonar_checked) =>
                /\ repos'[j].sonar_status = repos[i].sonar_status
                /\ repos'[j].sonar_checked = repos[i].sonar_checked]_vars

\* a full refresh has just installed a summary whose ERROR status only the
\* carry-forward can have put there
C1_Witness ==
    /\ last = "refresh_all" /\ ~check_sonar /\ raised = NoError
    /\ \E i \in 1..Len(repos) :
        repos[i].sonar_status = "ERROR" /\ repos[i].sonar_checked

\* C2: a single-repository refresh with check_sonar = false leaves the replaced
\* summary's sonar_status and sonar_checked as they were.
C2_SingleRefreshKeepsSonar ==
    [][(last' = "refresh_repo" /\ ~check_sonar /\ Len(repos') = Len(repos)) =>
        \A i \in 1..Len(repos) :
            /\ repos'[i].sonar_status = repos[i].sonar_status
            /\ repos'[i].sonar_checked = repos[i].sonar_checked]_vars

\* C3: after a refresh rebuilt the list, the cursor is on the entry that has the
\* identity highlighted before, if the rebuilt list has it, and on position 0 if not.
C3_RefreshKeepsSelection ==
    [][(/\ last' \in {"refresh_all", "refresh_repo"}
        /\ view_mode = "list" /\ highlighted # None
        /\ raised' = NoError /\ options' # <<>>) =>
            LET found == IndexOf(options', Nth(options, highlighted).id)
            IN  highlighted' = IF found # None THEN found ELSE 0]_vars

\* C4: toggle-expand on a highlighted header flips that repository's membership
\* and leaves the cursor on the header of the same repository.
C4_ToggleKeepsHeader ==
    [][(/\ last' = "toggle_expand" /\ view_mode = "list" /\ highlighted # None
        /\ Nth(options, highlighted).id[1] = "repo") =>
            LET name == Nth(options, highlighted).id[2]
            IN  /\ (name \in expanded') # (name \in expanded)
                /\ expanded' \ {name} = expanded \ {name}
                /\ highlighted' # None
                /\ highlighted' < Len(options')
                /\ Nth(options', highlighted').id = <<"repo", name, 0>>]_vars

\* the list widget of the widget runs holds the options of its last build
ListBuilt == last \in {"set_repos", "rebuild", "cursor", "toggle_expand"}

\* the rows the flattening prescribes below the header of repo
ChildIds(repo) ==
    IF repo.name \notin expanded THEN <<>>
    ELSE [i \in 1..Len(repo.pull_requests) |->
              <<"pr", repo.name, repo.pull_requests[i].number>>]
         \o [i \in 1..Len(repo.issues) |-> <<"issue", repo.name, repo.issues[i]>>]
         \o (IF repo.pull_requests = <<>> /\ repo.issues = <<>>
                THEN <<<<"empty", repo.name, 0>>>> ELSE <<>>)

\* C5: each repository has exactly one header; an expanded repository's header is
\* followed at once by its PR rows in list order, its issue rows in list order and
\* one empty-state row iff it has neither; a collapsed one contributes its header only.
C5_FlatteningStructure ==
    ListBuilt =>
        \A r \in 1..Len(repos) :
            LET at == {i \in 1..Len(options) : options[i].id = <<"repo", repos[r].name, 0>>}
                rows == ChildIds(repos[r])
            IN  /\ Cardinality(at) = 1
                /\ \A i \in at :
                    /\ i + Len(rows) <= Len(options)
                    /\ \A k \in 1..Len(rows) : options[i + k].id = rows[k]
                    /\ i + Len(rows) < Len(options) =>
                           options[i + Len(rows) + 1].id[1] = "repo"

\* C6: building the flat list never raises, whatever the collection and the
\* expanded set, an expanded repository with pull requests included.
C6_BuildNeverRaises == raised = NoError

\* the weight the claim gives a quality-gate status
StatusWeight(status) ==
    IF status = "ERROR" THEN 1000 ELSE IF status = "WARN" THEN 100 ELSE 0

\* C7: list-view priority is 1000 for ERROR, else 100 for WARN, else 0, plus the
\* open-issue count, whatever the other fields; 12 issues without status gives 12,
\* WARN with 1 issue gives 101 and is listed first.
C7_ListPriority ==
    ListBuilt =>
        /\ \A i \in 1..Len(repos) :
            keys[i] = StatusWeight(repos[i].sonar_status) + repos[i].open_issues_count
        /\ \A i, j \in 1..Len(repos) :
            (/\ repos[i].sonar_status = NoStatus /\ repos[i].open_issues_count = 12
             /\ repos[j].sonar_status = "WARN" /\ repos[j].open_issues_count = 1) =>
                /\ keys[i] = 12 /\ keys[j] = 101
                /\ IndexOf(options, <<"repo", repos[j].name, 0>>)
                       < IndexOf(options, <<"repo", repos[i].name, 0>>)

\* the scenario's two repositories have been sorted
C7_Witness ==
    /\ last = "set_repos" /\ Len(repos) = 2 /\ Len(options) = 2
    /\ repos[1].sonar_status = NoStatus /\ repos[1].open_issues_count = 12
    /\ repos[1].has_uncommitted_changes = FALSE
    /\ repos[2].sonar_status = "WARN" /\ repos[2].open_issues_count = 1
    /\ options[1].id = <<"repo", repos[2].name, 0>>

\* position in repos of the summary named name
InputIndex(name) == CHOOSE i \in 1..Len(repos) : repos[i].name = name

\* C8: headers and cards are in non-increasing order of the view's priority, and
\* repositories of equal priority keep the relative order of the input collection.
C8_SortedStable ==
    /\ ListBuilt =>
        LET at == {i \in 1..Len(options) : options[i].id[1] = "repo"}
            p(i) == _get_priority(repos[InputIndex(options[i].id[2])])
        IN  \A i, j \in at : i < j =>
                \/ p(i) > p(j)
                \/ p(i) = p(j) /\ InputIndex(options[i].id[2]) < InputIndex(options[j].id[2])
    /\ last = "grid_set_repos" =>
        /\ Len(cards) = Len(repos)
        /\ \A i, j \in 1..Len(cards) : i < j =>
            \/ RepoGridWidget_get_priority(cards[i]) > RepoGridWidget_get_priority(cards[j])
            \/ /\ RepoGridWidget_get_priority(cards[i]) = RepoGridWidget_get_priority(cards[j])
               /\ InputIndex(cards[i].name) < InputIndex(cards[j].name)

\* two repositories of equal list priority have been sorted
C8_Witness ==
    /\ last = "set_repos" /\ raised = NoError
    /\ Len(repos) = 2 /\ keys[1] = keys[2] /\ repos[1] # repos[2]
    /\ Len(repos[1].issues) > 0

C10_UnrelatedToggleKeepsIdentity ==
    [][(last' = "toggle_expand" /\ expanded' # expanded) =>
        \A i \in 1..Len(options) :
            options[i].id[2] \notin ((expanded' \ expanded) \cup (expanded \ expanded')) =>
                LET found == _select_by_id(options', None, options[i].id)
                IN  /\ found # None
                    /\ Nth(options', found).id = options[i].id]_vars

C12_RepositoryFilter ==
    last = "should_include_repo" =>
        LET included_repos == IF "included_repos" \in DOMAIN call.data
                                  THEN call.data.included_repos ELSE <<>>
            excluded_repos == IF "excluded_repos" \in DOMAIN call.data
                                  THEN call.data.excluded_repos ELSE <<>>
        IN  /\ Len(included_repos) > 0 =>
                (call.should_include_repo <=> call.repo_name \in Range(included_repos))
            /\ Len(included_repos) = 0 =>
                (call.should_include_repo <=> call.repo_name \notin Range(excluded_repos))
            /\ call.is_excluded <=> ~call.should_include_repo

\* a repository on both lists is included
C12_Witness ==
    /\ last = "should_include_repo"
    /\ "included_repos" \in DOMAIN call.data
    /\ "excluded_repos" \in DOMAIN call.data
    /\ call.repo_name \in Range(call.data.included_repos)
    /\ call.repo_name \in Range(call.data.excluded_repos)
    /\ call.should_include_repo

\* C13: the candidate keys are owner_repo, repo, owner_repo with every hyphen turned
\* into an underscore, and then org_repo and org:repo exactly when an organisation is
\* configured; repeated keys stay (3 keys without an organisation, 5 with one).
C13_GuessOrder ==
    last = "guess_project_key" =>
        LET owner == call.owner
            repo == call.repo
            org == call.org
            p == call.patterns
            underscored(str) == [i \in 1..Len(str) |-> IF str[i] = "-" THEN "_" ELSE str[i]]
        IN  /\ Len(p) = (IF Len(org) > 0 THEN 5 ELSE 3)
            /\ p[1] = owner \o <<"_">> \o repo
            /\ p[2] = repo
            /\ p[3] = underscored(owner) \o <<"_">> \o underscored(repo)
            /\ Len(org) > 0 => /\ p[4] = org \o <<"_">> \o repo
                               /\ p[5] = org \o <<":">> \o repo

\* an organisation is configured and the first key comes back as the third
C13_Witness ==
    /\ last = "guess_project_key"
    /\ Len(call.org) > 0
    /\ Len(call.patterns) = 5
    /\ call.patterns[1] = call.patterns[3]

\* C14: a quality check queries the candidate keys in guess order and stops at the
\* first key that resolves; the stored status is that key's status; when no key
\* resolves every key was queried, the status is absent and sonar_checked is true.
C14_FirstResolvingKey ==
    LET Attributed(summary, project_keys, answers, queried) ==
            LET hits == {j \in 1..Len(project_keys) : answers[j] # NoStatus}
                first == IF hits = {} THEN Len(project_keys)
                         ELSE CHOOSE j \in hits : \A k \in hits : j <= k
            IN  /\ queried = SubSeq(project_keys, 1, first)
                /\ summary.sonar_status = (IF hits = {} THEN NoStatus ELSE answers[first])
                /\ summary.sonar_checked
    IN  /\ (last = "fetch_single_repo" /\ call.check /\ raised = NoError) =>
                Attributed(repos[1], guess_project_key(call.owner, call.repo, call.org),
                           call.answers, call.queried)
        /\ last = "sonar_all_keys" =>
                \A i \in 1..Len(repos) :
                    Attributed(repos[i],
                               guess_project_key(call.owner, repos[i].name, call.org),
                               call.answers[i], call.queried[i])

\* the second key resolves, a later key would resolve to another status, and a
\* repository that carried a status ends checked with none
C14_Witness ==
    \/ /\ last = "fetch_single_repo" /\ call.check /\ raised = NoError
       /\ call.answers[1] = NoStatus /\ call.answers[2] = "OK" /\ call.answers[3] = "ERROR"
       /\ Len(call.queried) = 2
       /\ repos[1].sonar_status = "OK"
    \/ /\ last = "sonar_all_keys"
       /\ Len(repos) = 2
       /\ call.prior[2].sonar_status = "WARN"
       /\ repos[1].sonar_status = "ERROR" /\ Len(call.queried[1]) = 1
       /\ repos[2].sonar_status = NoStatus /\ repos[2].sonar_checked
       /\ Len(call.queried[2]) = Len(guess_project_key(call.owner, repos[2].name, call.org))

\* C15: a full pass never raises, whatever mix of source calls fails, and returns
\* one summary per listed repository that passed the filter, in listing order (none
\* when the listing fails).
C15_PassNeverFails ==
    last = "fetch_all_repos" =>
        LET kept == IF call.listing.end = "ok"
                        THEN SelectSeq(call.listing.value,
                                       LAMBDA name : should_include_repo(call.data, name))
                        ELSE <<>>
        IN  /\ raised = NoError
            /\ Len(repos) = Len(kept)
            /\ \A i \in 1..Len(kept) : repos[i].name = kept[i]

\* the text has a line that is not empty and does not begin with "??"
TrackedChange(stdout) ==
    \E i \in 1..Len(stdout) :
        /\ i = 1 \/ stdout[i - 1] = "\n"
        /\ stdout[i] # "\n"
        /\ ~(i < Len(stdout) /\ stdout[i] = "?" /\ stdout[i + 1] = "?")

\* C16: a failing source call of one repository empties that data type of that
\* repository only; every other data type and every other repository of the pass
\* holds what its own calls returned.
C16_FailureIsolation ==
    last = "fetch_all_repos" =>
        LET kept == listed_repos(call.data, call.listing)
            src(i) == call.srcs[kept[i]]
        IN  /\ raised = NoError
            /\ Len(repos) = Len(kept)
            /\ \A i \in 1..Len(kept) :
                /\ repos[i].issues = (IF src(i).issues.end = "ok" /\ src(i).has_issues_enabled
                                         THEN src(i).issues.value ELSE <<>>)
                /\ repos[i].pull_requests = (IF src(i).prs.end = "ok"
                                                THEN src(i).prs.value ELSE <<>>)
                /\ repos[i].has_uncommitted_changes =
                       (/\ src(i).local
                        /\ src(i).git.status.end = "ok"
                        /\ src(i).git.branch.end # "exception"
                        /\ TrackedChange(src(i).git.status.value))

\* C17: in every state of the shell every summary's open_issues_count is the length
\* of its issue list, whichever fetch produced it and whatever the shell did since.
C17_CountIsLength ==
    \A i \in 1..Len(repos) : repos[i].open_issues_count = Len(repos[i].issues)

\* a summary with an open issue after a carry-forward, a replace-on-refresh or sonar-all
C17_Witness ==
    /\ last \in {"refresh_all", "refresh_repo", "sonar_repo", "sonar_all"}
    /\ \E i \in 1..Len(repos) :
        /\ Len(repos[i].issues) >= 1
        /\ repos[i].open_issues_count = Len(repos[i].issues)
        /\ repos[i].sonar_checked

\* C19: started with --sonar, every summary is sonar_checked once the initial load
\* has completed.
C19_StartupChecksSonar ==
    (last = "initial_load" /\ check_sonar /\ raised = NoError) =>
        \A i \in 1..Len(repos) : repos[i].sonar_checked

\* C20: view_mode starts as "list" and is always "list" or "grid"; '2' leaves the
\* shell in grid view and '1' in list view, a switch to the current view changes
\* nothing, and no switch changes the collection.
C20_SwitchKeepsData ==
    /\ view_mode = "list"
    /\ [](view_mode \in {"list", "grid"})
    /\ [][/\ last' = "switch_view_grid" =>
                /\ view_mode' = "grid"
                /\ repos' = repos
                /\ view_mode = "grid" =>
                     UNCHANGED <<check_sonar, view_mode, expanded, options, highlighted,
                                 cards, focused, keys, raised>>
          /\ last' = "switch_view_list" =>
                /\ view_mode' = "list"
                /\ repos' = repos
                /\ view_mode = "list" =>
                     UNCHANGED <<check_sonar, view_mode, expanded, options, highlighted,
                                 cards, focused, keys, raised>>]_vars

\* back in list view after a round trip over the grid, two summaries in the
\* collection in an order the views do not show them in
C20_Witness ==
    /\ last = "switch_view_list"
    /\ view_mode = "list"
    /\ cards = <<>>
    /\ Len(repos) = 2
    /\ Len(options) = 2
    /\ options[1].id[2] = repos[2].name

\* C18: at no time are two aggregation runs in flight, and no run starts while
\* another one is active, whatever keys are pressed during a run.
C18_SingleFlight ==
    /\ [](Len(flight.active) <= 1)
    /\ [][Len(flight'.active) > Len(flight.active) => flight.active = <<>>]_vars

\* a run is in flight with a key pressed during it waiting in the queue
C18_Witness ==
    /\ Len(flight.active) = 1
    /\ flight.active[1].pc = "fetch"
    /\ last = "key"
    /\ flight.queue # <<>>

\* C21: whenever a step of the probe fails (the status query or the branch query
\* exits non-zero or raises) the probe returns (false, absent) and raises nothing.
C21_ProbeFailureIsBlank ==
    (last = "get_git_status" /\ (call.status.end # "ok" \/ call.branch.end # "ok")) =>
        /\ raised = NoError
        /\ call.result = [has_uncommitted_changes |-> FALSE, current_branch |-> NoBranch]

\* C21 (as the code has it): a failing probe raises nothing and returns no branch;
\* it returns false for the changes too, except when the status query succeeded and
\* only the branch query exited non-zero: then it returns what the status query found.
C21_ProbeFailureKeepsStatus ==
    (last = "get_git_status" /\ (call.status.end # "ok" \/ call.branch.end # "ok")) =>
        /\ raised = NoError
        /\ call.result.current_branch = NoBranch
        /\ call.result.has_uncommitted_changes =
               (/\ call.status.end = "ok"
                /\ call.branch.end = "nonzero_exit"
                /\ TrackedChange(call.status.value))

\* the status query found a tracked change and the branch query exited non-zero
C21_Witness ==
    /\ last = "get_git_status"
    /\ call.status.end = "ok"
    /\ call.branch.end = "nonzero_exit"
    /\ call.result.has_uncommitted_changes
    /\ call.result.current_branch = NoBranch

\* C22: launch_claude raises for no repository, issue, pull request and spawn
\* outcome and returns a status message; without a local working copy the message
\* is "not found locally" and no process is spawned.
C22_LaunchNeverRaises ==
    last = "launch_claude" =>
        /\ raised = NoError
        /\ call.result # <<>>
        /\ ~call.local => /\ call.result[1] = "Repo not found locally"
                          /\ ~call.spawned

C25_BoundedConcurrency ==
    LET n == Len(flight.kept)
        started == {p \in 1..n : <<flight.kept[p], "prs">> \in flight.requests}
    IN  /\ Cardinality(flight.running) <= 10
        /\ flight.running \subseteq {flight.kept[p] : p \in started}
        /\ \E b \in 0..((n + 9) \div 10) :
               started = 1..(IF 10 * b < n THEN 10 * b ELSE n)
        /\ \A p \in started :
               \A q \in 1..(10 * ((p - 1) \div 10)) : flight.kept[q] \in flight.finished

\* ten repositories of the second batch in flight, the first batch finished
C25_Witness ==
    /\ Cardinality(flight.running) = 10
    /\ flight.i = 10
    /\ Cardinality(flight.finished) = 10
    /\ Len(flight.kept) > 20

\* C26: in whatever order the tasks of a batch finish, the summaries collected are
\* those of the filtered listing in listing order, each holding the data fetched for
\* its own repository; a pass that returns returns all of them.
C26_ListingOrder ==
    LET filtered == SelectSeq([k \in 1..call.n |-> k],
                              LAMBDA name : should_include_repo(call.data, name))
    IN  /\ Len(flight.overviews) <= Len(filtered)
        /\ \A p \in 1..Len(flight.overviews) :
            /\ flight.overviews[p].name = filtered[p]
            /\ flight.overviews[p].issues =
                   (IF filtered[p] \in IssuesDisabled THEN <<>> ELSE <<filtered[p]>>)
            /\ flight.overviews[p].pull_requests = <<>>
            /\ flight.overviews[p].local_path = (filtered[p] \in LocalClones)
        /\ flight.pc = "returned" => Len(flight.overviews) = Len(filtered)

\* a pass has returned whose last batch was not finished first by its first repository
C26_Witness ==
    /\ flight.pc = "returned"
    /\ Len(flight.overviews) > 10
    /\ flight.first # 0
    /\ flight.first # flight.overviews[Len(flight.overviews) - (Len(flight.kept) % 10) + 1].name
    /\ Len(flight.kept) % 10 > 1

\* C27: for a repository with a local working copy the git probe runs concurrently
\* with the issue and PR fetches: it is started with them and does not wait for them
\* to finish.
C27_ProbeWithFetches ==
    (call.src.local /\ raised = NoError
        /\ (flight.issues = "flight" \/ flight.prs = "flight")) =>
        flight.probe # "idle"

\* C27 (as the code has it): the issue and PR fetches of a repository run
\* concurrently with each other; the git probe of a local working copy is started
\* only after both have finished and is never in flight together with either.
C27_ProbeAfterFetches ==
    /\ flight.probe = "flight" =>
        /\ flight.issues \in {"done", "skipped"}
        /\ flight.prs = "done"
    /\ (flight.issues = "flight" \/ flight.prs = "flight") => flight.probe = "idle"
    /\ (flight.pc = "gather" /\ last = "start_fetches") =>
        /\ flight.prs = "flight"
        /\ call.src.has_issues_enabled => flight.issues = "flight"

\* the probe of a local clone in flight, the issue and PR calls finished
C27_Witness ==
    /\ call.src.local
    /\ call.src.has_issues_enabled
    /\ flight.probe = "flight"
    /\ flight.issues = "done"
    /\ flight.prs = "done"

\* C28: the filter comes before every fetch: in a full pass no issue, PR or git
\* request is sent for a repository the filter rejects, and a repository with
\* issues disabled gets no issue request and an empty issue list.
C28_FilterBeforeFetch ==
    /\ \A request \in flight.requests :
        /\ request[1] \in 1..call.n
        /\ should_include_repo(call.data, request[1])
        /\ request[2] = "issues" => request[1] \notin IssuesDisabled
    /\ \A p \in 1..Len(flight.overviews) :
        flight.overviews[p].name \in IssuesDisabled => flight.overviews[p].issues = <<>>

\* a pass with rejected names and a repository without issues has returned, the
\* other repositories fetched
C28_Witness ==
    /\ flight.pc = "returned"
    /\ \E name \in 1..call.n : ~should_include_repo(call.data, name)
    /\ <<1, "issues">> \in flight.requests
    /\ <<3, "prs">> \in flight.requests
    /\ <<3, "issues">> \notin flight.requests
    /\ <<12, "git">> \in flight.requests
    /\ flight.overviews[2].name = 3

\* C29: a response of unexpected shape (valid JSON without a projectStatus object,
\* or with one that holds no status) is treated like a failure: get_project_status
\* returns absent and the key loop goes on to the next candidate key.
C29_MalformedIsAbsent ==
    (last = "get_project_status" /\ call.response.shape # "well_formed") =>
        /\ call.result = NoStatus
        /\ call.found.queried = <<"k1", "k2">>
        /\ call.found.sonar_status = call.second

\* C30: the aggregate status of a non-empty list of check contexts is FAILURE if a
\* context is failing, else PENDING if one is pending, else SUCCESS if every context
\* is a success, else none (a context with no state, or with a conclusion that is no
\* success, keeps it from SUCCESS); with no contexts it is none.
C30_ChecksAggregate ==
    last = "checks_status" =>
        LET value(c) == IF c.state \notin {"None", ""} THEN c.state ELSE c.conclusion
            all == {value(call.contexts[i]) : i \in 1..Len(call.contexts)}
        IN  call.checks_status =
                (IF all = {} THEN NoStatus
                 ELSE IF all \cap {"FAILURE", "failure", "TIMED_OUT"} # {} THEN "FAILURE"
                 ELSE IF all \cap {"PENDING", "pending", "IN_PROGRESS"} # {} THEN "PENDING"
                 ELSE IF all \subseteq {"SUCCESS", "success"} THEN "SUCCESS"
                 ELSE NoStatus)

\* C31: when the probe completes, get_git_status reports uncommitted changes exactly
\* when the output of git status has a non-empty line that is not an untracked ("??")
\* entry; empty output and output of untracked entries only give false.
C31_DirtyDetermination ==
    (last = "get_git_status" /\ call.status.end = "ok" /\ call.branch.end # "exception") =>
        /\ call.result.has_uncommitted_changes = TrackedChange(call.status.value)
        /\ call.status.value = <<>> => ~call.result.has_uncommitted_changes
        /\ (\A i \in 1..Len(call.status.value) :
                (i = 1 \/ call.status.value[i - 1] = "\n") =>
                    call.status.value[i] = "?" /\ call.status.value[i + 1] = "?")
            => ~call.result.has_uncommitted_changes

\* a modified file listed first (its line begins with a blank) and an untracked one
C31_Witness ==
    /\ last = "get_git_status"
    /\ call.branch.end = "ok"
    /\ call.status = Ok(porcelain(<<[xy |-> <<" ", "M">>, path |-> <<"f">>],
                                    [xy |-> <<"?", "?">>, path |-> <<"f">>]>>))
    /\ call.result.has_uncommitted_changes

\* C32: in every state of the shell a summary that has a sonar_status has
\* sonar_checked = true, whether it came from fetch_all_repos, fetch_single_repo,
\* the carry-forward of a full refresh or sonar-all.
C32_StatusImpliesChecked ==
    \A i \in 1..Len(repos) : repos[i].sonar_status # NoStatus => repos[i].sonar_checked

\* a full refresh has carried a status forward next to a summary never checked
C32_Witness ==
    /\ last = "refresh_all" /\ raised = NoError
    /\ Len(repos) = 2
    /\ \E i, j \in 1..2 :
        /\ repos[i].sonar_status = "ERROR" /\ repos[i].sonar_checked
        /\ repos[j].sonar_status = NoStatus /\ ~repos[j].sonar_checked

C34_RefreshAllShowsCollection ==
    [][last' = "refresh_all" =>
        /\ raised' = NoError
        /\ view_mode' = view_mode
        /\ view_mode = "list" =>
               \A i \in 1..Len(repos') :
                   IndexOf(options', <<"repo", repos'[i].name, 0>>) # None
        /\ view_mode = "grid" =>
               /\ Len(cards') = Len(repos')
               /\ \A i \in 1..Len(repos') : \E k \in 1..Len(cards') : cards'[k] = repos'[i]]_vars

\* C35: a single-repository refresh and a per-repository sonar check change the
\* selected repository only: the collection keeps its length and order, the slot of
\* the selected name holds a summary as fetch_single_repo has just built it, every
\* other summary is unchanged; with nothing selected the collection is unchanged.
C35_SingleRepoFrame ==
    [][last' \in {"refresh_repo", "sonar_repo"} =>
        LET check == last' = "sonar_repo" \/ check_sonar
        IN  IF selected_repo = <<>> THEN repos' = repos
            ELSE /\ Len(repos') = Len(repos)
                 /\ \A i \in 1..Len(repos) :
                     /\ repos'[i].name = repos[i].name
                     /\ repos[i].name # selected_repo[1].name => repos'[i] = repos[i]
                     /\ repos[i].name = selected_repo[1].name =>
                         /\ repos'[i].sonar_checked = check
                         /\ ~check => repos'[i].sonar_status = NoStatus
                         /\ repos'[i].open_issues_count = Len(repos'[i].issues)
                         /\ \E d \in FetchData, sonar \in SonarResults :
                                repos'[i] = fetch_single_repo(repos[i], check, d, sonar)]_vars

\* a sonar check of the second of two summaries has left the first one unchecked
C35_Witness ==
    /\ last = "sonar_repo" /\ raised = NoError
    /\ Len(repos) = 2
    /\ ~repos[1].sonar_checked
    /\ repos[2].sonar_checked /\ repos[2].sonar_status = "ERROR"

\* C36: toggle-expand with the cursor on a row that is no header (a PR, an issue or
\* an empty-state row) or with nothing highlighted changes nothing: the expanded set,
\* the flat sequence and the cursor stay as they were.
C36_ToggleOffHeaderIsNoOp ==
    [][(/\ last' = "toggle_expand"
        /\ \/ highlighted = None
           \/ Nth(options, highlighted).id[1] # "repo") =>
            /\ expanded' = expanded
            /\ options' = options
            /\ highlighted' = highlighted
            /\ repos' = repos
            /\ raised' = raised]_vars

\* toggle-expand has run with the cursor on an issue row below the first one
C36_Witness ==
    /\ last = "toggle_expand" /\ raised = NoError
    /\ highlighted # None /\ highlighted >= 2
    /\ Nth(options, highlighted).id[1] = "issue"
    /\ expanded # {}

\* the identities of a flat sequence, in order
Ids(opts) == [i \in 1..Len(opts) |-> opts[i].id]

\* C37: toggle-expand applied twice in a row on a highlighted header, the data
\* unchanged in between, gives back the expanded set and the sequence of identities
\* it started from, with the cursor on the same header.
C37_ToggleTwiceRestores ==
    (/\ ListBuilt /\ raised = NoError
     /\ highlighted # None /\ Nth(options, highlighted).id[1] = "repo") =>
        \A first, second \in Ages :
            LET once == toggle_expand(widget, first)
                twice == toggle_expand(once, second)
            IN  /\ once.raised = NoError /\ twice.raised = NoError
                /\ once.expanded # expanded
                /\ twice.expanded = expanded
                /\ Ids(twice.options) = Ids(options)
                /\ twice.highlighted = highlighted

\* C38: over a collection with distinct repository names and, within a repository,
\* distinct PR numbers and distinct issue numbers, the entries of every built
\* sequence have pairwise distinct identities, and the lookup of an identity of the
\* sequence resolves to the one position that carries it.
C38_DistinctIdentities ==
    ListBuilt =>
        /\ \A i, j \in 1..Len(options) : options[i].id = options[j].id => i = j
        /\ \A i \in 1..Len(options) :
               _select_by_id(options, None, options[i].id) = i - 1

\* two expanded repositories that both have an issue number 1 and an issue number 2
C38_Witness ==
    /\ ListBuilt /\ raised = NoError
    /\ \A n \in RepoNames : \A k \in 1..2 :
           \E i \in 1..Len(options) : options[i].id = <<"issue", n, k>>

\* C39: over a collection in which no repository has more open issues than the
\* fetch limit of 100, a repository whose status is ERROR has a strictly higher
\* list priority than one whose status is not ERROR and its header comes first.
C39_ErrorFirst ==
    (ListBuilt /\ \A i \in 1..Len(repos) : repos[i].open_issues_count <= 100) =>
        \A i, j \in 1..Len(repos) :
            (repos[i].sonar_status = "ERROR" /\ repos[j].sonar_status # "ERROR") =>
                LET first == IndexOf(options, <<"repo", repos[i].name, 0>>)
                    second == IndexOf(options, <<"repo", repos[j].name, 0>>)
                IN  /\ keys[i] > keys[j]
                    /\ raised = NoError => second # None
                    /\ second # None => (first # None /\ first < second)

\* an ERROR repository without issues listed before a WARN repository with 100
C39_Witness ==
    /\ last = "set_repos" /\ raised = NoError
    /\ Len(repos) = 2
    /\ repos[1].sonar_status = "WARN" /\ repos[1].open_issues_count = 100
    /\ repos[2].sonar_status = "ERROR" /\ repos[2].open_issues_count = 0
    /\ keys = <<200, 1000>>
    /\ options[1].id = <<"repo", repos[2].name, 0>>

\* C40: in the issue and the PR detail screen, once mounted and after any
\* previous/next keys, current_index is within [0, len(list) - 1] and the item
\* held and displayed (title, position, body) is list[current_index]; previous at
\* index 0 and next at the last index change nothing (no wrap-around), any other
\* key moves by one, and with an empty list navigation changes nothing.
C40_DetailNavigation ==
    /\ [](last # "push_screen" =>
            /\ flight.content.title = <<flight.item.number>>
            /\ flight.content.body = <<flight.item.number>>
            /\ flight.list # <<>> =>
                  /\ flight.current_index \in 0..(Len(flight.list) - 1)
                  /\ flight.item = Nth(flight.list, flight.current_index)
                  /\ flight.content.meta = <<flight.current_index + 1, Len(flight.list)>>)
    /\ [][last' \in {"previous", "next"} =>
            LET target == flight.current_index + (IF last' = "previous" THEN -1 ELSE 1)
            IN  IF flight.list = <<>> \/ target < 0 \/ target > Len(flight.list) - 1
                    THEN flight' = flight
                    ELSE flight'.current_index = target /\ flight'.list = flight.list]_vars
====
